---- MODULE Spec2Model ----
(***************************************************************************)
(* Model of the dompet-platform tool registry (src/memory/monthly.ts),     *)
(* the chat endpoint (src/api/v1/index.ts) and the plan executor           *)
(* (src/orchestrator/index.ts).                                            *)
(*                                                                         *)
(* Database statements are the atomic steps: every awaited statement of a  *)
(* handler is one action, together with the synchronous code that follows  *)
(* it up to the next await.                                                *)
(*                                                                         *)
(* Failures of the environment are modelled where the handlers react to    *)
(* them: the insert of the transactions.create executor may throw, and a   *)
(* provider call of the orchestrator may throw. Rows are never deleted.    *)
(* The chat route registers the handler transactions.create for every      *)
(* request; authentication and the rate limit of the route admit the       *)
(* requests of this model.                                                 *)
(***************************************************************************)
EXTENDS Integers, Sequences, FiniteSets, TLC

VARIABLES
    tenants,          \* rows of table tenants
    customers,        \* rows of table customers
    idempotencyKeys,  \* rows of table idempotency_keys
    paymentIntents,   \* rows of table payment_intents
    calls,            \* the invocations of the MCP handler transactions.create
    database,         \* whether the API process has a database (resolveDb)
    chats,            \* the requests to POST /chat
    persists,         \* the invocations of persistTransaction
    insightStore,     \* the array insightStore of storage/insights
    embeddings,       \* the Map embeddings of services/embeddings
    computations,     \* the number of calls of computeMonthlyMemory so far
    apiResponse,      \* what the latest operation of the API returned
    auth,             \* the request that is in requireUser, and its context
    authCount,        \* the number of requests that have called requireUser
    buckets,          \* the Map buckets of the rate-limit module
    admissions,       \* per bucket: the requests admitted in its present window
    clockMs,          \* Date.now() of the rate-limit module
    rateRoute,        \* the route whose requests are being limited
    providerCall,     \* the call of a model provider that is under way
    providerCalls,    \* the number of provider calls started so far
    evaluation,       \* the latest call of the KPI library and what it returned
    embedCall,        \* the call of embedTexts that is under way
    heap              \* the objects of the simulator's process and its calls

vars == <<tenants, customers, idempotencyKeys, paymentIntents, calls,
          database, chats, persists,
          insightStore, embeddings, computations, apiResponse,
          auth, authCount, buckets, admissions, clockMs, rateRoute,
          providerCall, providerCalls, evaluation, embedCall, heap>>

memoryVars == <<insightStore, embeddings, computations, apiResponse>>

authVars == <<auth, authCount>>

rateVars == <<buckets, admissions, clockMs, rateRoute>>

providerVars == <<providerCall, providerCalls>>

kpiVars == <<evaluation>>

embedVars == <<embedCall>>

heapVars == <<heap>>

apiVars == <<memoryVars, authVars, rateVars, providerVars, kpiVars, embedVars,
            heapVars>>

mcpVars == <<tenants, customers, idempotencyKeys, calls>>

chatVars == <<database, chats, persists>>

-----------------------------------------------------------------------------
(* Bounds and input domains                                                *)

\* Number of invocations of the handler in a run
MaxCalls == 3

\* Number of invocations that run concurrently
MaxConcurrent == 2

\* Number of chat requests in a run
MaxChats == 2

\* Number of concurrent invocations of persistTransaction
MaxPersists == 3

ChatIds == 1..MaxChats

PersistIds == 1..MaxPersists

CallIds == 1..MaxCalls

TenantSlugs == {"dompet"}

UserIds == {"u1", "u2"}

\* An optional field is a sequence of length 0 (absent) or 1 (present).
Absent == <<>>

Present(v) == <<v>>

NumberValue(n) == [type |-> "number", value |-> n]

StringValue == [type |-> "string", value |-> 0]

ToolInput(key, reference, amount) ==
    [idempotencyKey |-> key, reference |-> reference, amount |-> amount]

\* Raw tool inputs: two payloads for one key without a reference, two keys
\* that name the same reference, and two inputs that the input schema
\* rejects (an empty idempotencyKey, an amount that is not a number).
RawInputs ==
    {ToolInput("k1", Absent, NumberValue(10)),
     ToolInput("k1", Absent, NumberValue(20)),
     ToolInput("k1", Present("r1"), NumberValue(10)),
     ToolInput("k2", Present("r1"), NumberValue(10)),
     ToolInput("k2", Absent, NumberValue(10)),
     ToolInput("", Absent, NumberValue(10)),
     ToolInput("k1", Absent, StringValue)}

-----------------------------------------------------------------------------
(* Pure functions of src/memory/monthly.ts                                 *)

\* transactionsCreateInputSchema.parse succeeds
InputSchemaAccepts(raw) ==
    /\ raw.idempotencyKey # ""
    /\ raw.amount.type = "number"
    /\ \/ raw.reference = Absent
       \/ raw.reference[1] # ""

\* A payload without the userId of the context
RequestPayloadOfInput(input, userId) ==
    [idempotencyKey |-> input.idempotencyKey,
     reference |-> input.reference,
     amount |-> input.amount.value,
     userId |-> ""]

\* payload = {...input, userId: context.userId}
RequestPayload(input, userId) ==
    [idempotencyKey |-> input.idempotencyKey,
     reference |-> input.reference,
     amount |-> input.amount.value,
     userId |-> userId]

\* sha256(JSON.stringify(payload)): a digest that differs whenever one of the
\* serialised fields differs.
RequestHash(payload) ==
    <<"sha256", payload.idempotencyKey, payload.reference, payload.amount, payload.userId>>

\* randomUUID(): a value no other invocation produces
RandomUUID(c) == "uuid-" \o ToString(c)

\* deps.clock(): the time at which invocation c reads the clock
Clock(c) == c

\* normaliseError: the code reported for what the handler caught. A
\* ToolExecutionError keeps its own code.
NormaliseErrorCode(thrown) ==
    CASE thrown = "ZodError" -> "INVALID_INPUT"
      [] thrown = "Error" -> "INTERNAL_ERROR"
      [] OTHER -> thrown

\* The handler's catch branch: {status: "error", error: code + message, output: details}
HandlerError(thrown) ==
    [status |-> "error",
     code |-> NormaliseErrorCode(thrown),
     details |-> CASE thrown = "ZodError" -> "issues"
                   [] thrown = "IDEMPOTENCY_CONFLICT" -> "existingRequestHash"
                   [] OTHER -> "none",
     transactionId |-> 0,
     replayed |-> FALSE]

\* The handler's success branch for transactions.create
HandlerSuccess(transactionId, replayed) ==
    [status |-> "success", code |-> "", details |-> "none",
     transactionId |-> transactionId, replayed |-> replayed]

\* The serialised executor result stored as responsePayload
SerialisedResult(row) ==
    [transaction |-> [id |-> row.id, amount |-> row.amount],
     idempotency |-> [replayed |-> FALSE]]

\* externalReference: input.reference ?? randomUUID()
ExternalReference(input, c) ==
    IF input.reference # Absent THEN input.reference[1] ELSE RandomUUID(c)

\* The upsert with requestHash added to the set clause of ON CONFLICT
UpsertedRowOverwritingHash(existing, tenantId, key, requestHash, now) ==
    [id |-> IF existing = {} THEN Cardinality(idempotencyKeys) + 1
            ELSE (CHOOSE r \in existing : TRUE).id,
     tenantId |-> tenantId,
     idempotencyKey |-> key,
     requestHash |-> requestHash,
     responsePayload |-> IF existing = {} THEN Absent
                         ELSE (CHOOSE r \in existing : TRUE).responsePayload,
     lockedAt |-> now]

\* The row the upsert leaves for (tenantId, key): inserted with lockedAt = now,
\* or on conflict the existing row with only lockedAt set to now.
UpsertedRow(existing, tenantId, key, requestHash, now) ==
    IF existing = {}
    THEN [id |-> Cardinality(idempotencyKeys) + 1,
          tenantId |-> tenantId,
          idempotencyKey |-> key,
          requestHash |-> requestHash,
          responsePayload |-> Absent,
          lockedAt |-> now]
    ELSE LET row == CHOOSE r \in existing : TRUE
         IN [row EXCEPT !.lockedAt = now]

\* performIdempotentOperation without the check of responsePayload
AfterUpsertWithoutReplay(entry, requestHash) ==
    IF entry.requestHash # requestHash THEN "conflict" ELSE "execute"

\* What performIdempotentOperation does with the returned entry
AfterUpsert(entry, requestHash) ==
    IF entry.requestHash # requestHash THEN "conflict"
    ELSE IF entry.responsePayload # Absent THEN "replay"
    ELSE "execute"

\* The row the final update of performIdempotentOperation writes
CompletedRow(row, serialised, requestHash) ==
    [row EXCEPT !.responsePayload = Present(serialised),
                !.requestHash = requestHash,
                !.lockedAt = 0]

-----------------------------------------------------------------------------
(* State of one invocation of the handler                                  *)

IdleCall ==
    [pc |-> "idle", slug |-> "", userId |-> "", input |-> CHOOSE r \in RawInputs : TRUE,
     tenantId |-> 0, customerId |-> 0, entryId |-> 0, insertedId |-> 0,
     executions |-> 0, result |-> Absent]

McpInit ==
    /\ tenants = {}
    /\ customers = {}
    /\ idempotencyKeys = {}
    /\ paymentIntents = {}
    /\ calls = [c \in CallIds |-> IdleCall]

Finish(c, result) ==
    calls' = [calls EXCEPT ![c].pc = "done", ![c].result = Present(result)]

InFlight(c) == calls[c].pc \notin {"idle", "done"}

\* handler: definition.input.parse(rawInput), then the resolver starts; the
\* server's tenant slug and the raw input are drawn from the given sets
InvokeFrom(c, slugs, inputs) ==
    /\ calls[c].pc = "idle"
    /\ \A d \in CallIds : d < c => calls[d].pc # "idle"
    /\ \E slug \in slugs, userId \in UserIds, raw \in inputs :
         IF InputSchemaAccepts(raw)
         THEN calls' = [calls EXCEPT ![c].pc = "ensureTenant.select",
                                     ![c].slug = slug,
                                     ![c].userId = userId,
                                     ![c].input = raw]
         ELSE calls' = [calls EXCEPT ![c].pc = "done",
                                     ![c].slug = slug,
                                     ![c].userId = userId,
                                     ![c].input = raw,
                                     ![c].result = Present(HandlerError("ZodError"))]
    /\ UNCHANGED <<tenants, customers, idempotencyKeys, paymentIntents>>

Invoke(c) == InvokeFrom(c, TenantSlugs, RawInputs)

\* The slugs of two servers that share the database
ScopeSlugs == {"dompet", "other"}

\* Inputs under one key: two payloads, and one the input schema rejects
ScopeInputs ==
    {ToolInput("k1", Absent, NumberValue(10)),
     ToolInput("k1", Absent, NumberValue(20)),
     ToolInput("k1", Absent, StringValue)}

TenantsWithSlug(slug) == {t \in tenants : t.slug = slug}

\* ensureTenant: the first select
EnsureTenantSelect(c) ==
    /\ calls[c].pc = "ensureTenant.select"
    /\ LET existing == TenantsWithSlug(calls[c].slug)
       IN IF existing # {}
          THEN calls' = [calls EXCEPT ![c].pc = "ensureCustomer.select",
                                      ![c].tenantId = (CHOOSE t \in existing : TRUE).id]
          ELSE calls' = [calls EXCEPT ![c].pc = "ensureTenant.insert"]
    /\ UNCHANGED <<tenants, customers, idempotencyKeys, paymentIntents>>

\* ensureTenant: insert ... onConflictDoNothing().returning()
EnsureTenantInsert(c) ==
    /\ calls[c].pc = "ensureTenant.insert"
    /\ IF TenantsWithSlug(calls[c].slug) = {}
       THEN LET id == Cardinality(tenants) + 1
            IN /\ tenants' = tenants \cup {[id |-> id, slug |-> calls[c].slug]}
               /\ calls' = [calls EXCEPT ![c].pc = "ensureCustomer.select",
                                         ![c].tenantId = id]
       ELSE /\ calls' = [calls EXCEPT ![c].pc = "ensureTenant.fallback"]
            /\ UNCHANGED tenants
    /\ UNCHANGED <<customers, idempotencyKeys, paymentIntents>>

\* ensureTenant: the fallback select
EnsureTenantFallback(c) ==
    /\ calls[c].pc = "ensureTenant.fallback"
    /\ LET existing == TenantsWithSlug(calls[c].slug)
       IN IF existing # {}
          THEN calls' = [calls EXCEPT ![c].pc = "ensureCustomer.select",
                                      ![c].tenantId = (CHOOSE t \in existing : TRUE).id]
          ELSE Finish(c, HandlerError("TENANT_CREATION_FAILED"))
    /\ UNCHANGED <<tenants, customers, idempotencyKeys, paymentIntents>>

CustomersOf(tenantId, userId) ==
    {r \in customers : r.tenantId = tenantId /\ r.externalReference = userId}

\* ensureCustomer: the first select
EnsureCustomerSelect(c) ==
    /\ calls[c].pc = "ensureCustomer.select"
    /\ LET existing == CustomersOf(calls[c].tenantId, calls[c].userId)
       IN IF existing # {}
          THEN calls' = [calls EXCEPT ![c].pc = "upsert",
                                      ![c].customerId = (CHOOSE r \in existing : TRUE).id]
          ELSE calls' = [calls EXCEPT ![c].pc = "ensureCustomer.insert"]
    /\ UNCHANGED <<tenants, customers, idempotencyKeys, paymentIntents>>

\* An insert into a table customers without its unique index
EnsureCustomerInsertUnconstrained(c) ==
    /\ calls[c].pc = "ensureCustomer.insert"
    /\ LET id == Cardinality(customers) + 1
       IN /\ customers' = customers \cup
                {[id |-> id, tenantId |-> calls[c].tenantId,
                  externalReference |-> calls[c].userId]}
          /\ calls' = [calls EXCEPT ![c].pc = "upsert", ![c].customerId = id]
    /\ UNCHANGED <<tenants, idempotencyKeys, paymentIntents>>

\* ensureCustomer: insert ... onConflictDoNothing().returning()
EnsureCustomerInsert(c) ==
    /\ calls[c].pc = "ensureCustomer.insert"
    /\ IF CustomersOf(calls[c].tenantId, calls[c].userId) = {}
       THEN LET id == Cardinality(customers) + 1
            IN /\ customers' = customers \cup
                     {[id |-> id, tenantId |-> calls[c].tenantId,
                       externalReference |-> calls[c].userId]}
               /\ calls' = [calls EXCEPT ![c].pc = "upsert", ![c].customerId = id]
       ELSE /\ calls' = [calls EXCEPT ![c].pc = "ensureCustomer.fallback"]
            /\ UNCHANGED customers
    /\ UNCHANGED <<tenants, idempotencyKeys, paymentIntents>>

\* ensureCustomer: the fallback select
EnsureCustomerFallback(c) ==
    /\ calls[c].pc = "ensureCustomer.fallback"
    /\ LET existing == CustomersOf(calls[c].tenantId, calls[c].userId)
       IN IF existing # {}
          THEN calls' = [calls EXCEPT ![c].pc = "upsert",
                                      ![c].customerId = (CHOOSE r \in existing : TRUE).id]
          ELSE Finish(c, HandlerError("CUSTOMER_CREATION_FAILED"))
    /\ UNCHANGED <<tenants, customers, idempotencyKeys, paymentIntents>>

IdempotencyRows(tenantId, key) ==
    {r \in idempotencyKeys : r.tenantId = tenantId /\ r.idempotencyKey = key}

CallHash(c) == RequestHash(RequestPayload(calls[c].input, calls[c].userId))

\* performIdempotentOperation: the upsert of the idempotency record and the
\* checks on the returned entry
Upsert(c) ==
    /\ calls[c].pc = "upsert"
    /\ LET key == calls[c].input.idempotencyKey
           existing == IdempotencyRows(calls[c].tenantId, key)
           entry == UpsertedRow(existing, calls[c].tenantId, key, CallHash(c), Clock(c))
           outcome == AfterUpsert(entry, CallHash(c))
       IN /\ idempotencyKeys' = (idempotencyKeys \ existing) \cup {entry}
          /\ CASE outcome = "conflict" ->
                    calls' = [calls EXCEPT
                        ![c].pc = "done",
                        ![c].entryId = entry.id,
                        ![c].result = Present(HandlerError("IDEMPOTENCY_CONFLICT"))]
               [] outcome = "replay" ->
                    calls' = [calls EXCEPT
                        ![c].pc = "done",
                        ![c].entryId = entry.id,
                        ![c].result = Present(HandlerSuccess(
                            entry.responsePayload[1].transaction.id, TRUE))]
               [] OTHER ->
                    calls' = [calls EXCEPT ![c].pc = "executor", ![c].entryId = entry.id]
    /\ UNCHANGED <<tenants, customers, paymentIntents>>

PaymentIntentsWithReference(tenantId, reference) ==
    {r \in paymentIntents : r.tenantId = tenantId /\ r.externalReference = reference}

\* A failure handling that stores the error as the response of the record
ExecutorThrowsStoringError(c) ==
    /\ calls' = [calls EXCEPT
           ![c].pc = "done",
           ![c].executions = 1,
           ![c].result = Present(HandlerError("Error"))]
    /\ idempotencyKeys' =
           {IF r.id = calls[c].entryId
            THEN [r EXCEPT !.responsePayload =
                     Present([transaction |-> [id |-> 0, amount |-> 0],
                              idempotency |-> [replayed |-> FALSE]]),
                           !.lockedAt = 0]
            ELSE r : r \in idempotencyKeys}
    /\ UNCHANGED paymentIntents

\* The executor throws: performIdempotentOperation and the resolver do not
\* catch it, so the handler's catch branch returns the error and the
\* idempotency record stays as the upsert left it.
ExecutorThrows(c) ==
    /\ calls' = [calls EXCEPT
           ![c].pc = "done",
           ![c].executions = 1,
           ![c].result = Present(HandlerError("Error"))]
    /\ UNCHANGED <<idempotencyKeys, paymentIntents>>

\* The executor of transactions.create: insert into payment_intents. The
\* statement throws on a violation of payment_intents_tenant_reference_unique
\* or when the database fails.
Executor(c) ==
    /\ calls[c].pc = "executor"
    /\ LET reference == ExternalReference(calls[c].input, c)
           id == Cardinality(paymentIntents) + 1
       IN \E databaseFails \in BOOLEAN :
            IF databaseFails
               \/ PaymentIntentsWithReference(calls[c].tenantId, reference) # {}
            THEN ExecutorThrows(c)
            ELSE /\ paymentIntents' = paymentIntents \cup
                        {[id |-> id,
                          tenantId |-> calls[c].tenantId,
                          customerId |-> calls[c].customerId,
                          externalReference |-> reference,
                          amount |-> calls[c].input.amount.value]}
                 /\ calls' = [calls EXCEPT ![c].pc = "persist",
                                           ![c].executions = 1,
                                           ![c].insertedId = id]
                 /\ UNCHANGED idempotencyKeys
    /\ UNCHANGED <<tenants, customers>>

\* performIdempotentOperation: the update that stores the response, and the
\* resolver's return
Persist(c) ==
    /\ calls[c].pc = "persist"
    /\ LET inserted == CHOOSE r \in paymentIntents : r.id = calls[c].insertedId
           rows == {r \in idempotencyKeys : r.id = calls[c].entryId}
       IN /\ idempotencyKeys' = (idempotencyKeys \ rows) \cup
                 {CompletedRow(r, SerialisedResult(inserted), CallHash(c)) : r \in rows}
          /\ Finish(c, HandlerSuccess(SerialisedResult(inserted).transaction.id, FALSE))
    /\ UNCHANGED <<tenants, customers, paymentIntents>>

Step(c) ==
    \/ Invoke(c)
    \/ EnsureTenantSelect(c)
    \/ EnsureTenantInsert(c)
    \/ EnsureTenantFallback(c)
    \/ EnsureCustomerSelect(c)
    \/ EnsureCustomerInsert(c)
    \/ EnsureCustomerFallback(c)
    \/ Upsert(c)
    \/ Executor(c)
    \/ Persist(c)

-----------------------------------------------------------------------------
(* persistTransaction of src/api/v1/index.ts: the chat tool                *)

\* The authenticated users of the API (AuthenticatedUser)
AuthenticatedUsers ==
    {[userId |-> "u1", customerId |-> 1, tenantId |-> 1],
     [userId |-> "u2", customerId |-> 2, tenantId |-> 1]}

FiniteAmount(n) == [finite |-> TRUE, value |-> n]

InfiniteAmount == [finite |-> FALSE, value |-> 0]

Transaction(amount, currency, occurredAt, description, notes, idempotencyKey) ==
    [amount |-> amount, currency |-> currency, occurredAt |-> occurredAt,
     description |-> description, notes |-> notes, idempotencyKey |-> idempotencyKey]

\* Values of TransactionSchema that an extraction can yield
ChatTransactions ==
    {Transaction(Present(FiniteAmount(5)), Present("IDR"), Present("d1"),
                 Present("lunch"), Absent, Absent),
     Transaction(Present(FiniteAmount(5)), Present("IDR"), Present("d1"),
                 Absent, Present("lunch"), Absent),
     Transaction(Present(FiniteAmount(7)), Present("IDR"), Absent,
                 Absent, Absent, Absent),
     Transaction(Absent, Present("IDR"), Present("d1"),
                 Present("lunch"), Absent, Absent),
     Transaction(Present(FiniteAmount(5)), Absent, Present("d1"),
                 Present("lunch"), Absent, Absent),
     Transaction(Present(InfiniteAmount), Present("IDR"), Present("d1"),
                 Present("lunch"), Absent, Absent),
     Transaction(Present(FiniteAmount(5)), Present("IDR"), Present("d1"),
                 Present("lunch"), Absent, Present("ik1"))}

\* The extractions of the chat requests: persistable, without an amount,
\* with a non-finite amount, with a client idempotencyKey
ChatExtractions ==
    {t \in ChatTransactions :
        /\ t.currency # Absent
        /\ t.description # Absent}

\* value ?? fallback
OrElse(optional, fallback) == IF optional # Absent THEN optional[1] ELSE fallback

\* transaction.amount?.toString() ?? ""
AmountToString(amount) ==
    IF amount = Absent THEN ""
    ELSE IF amount[1].finite THEN ToString(amount[1].value)
    ELSE "Infinity"

\* The fallback key built from the description alone
FallbackKeyPartsIgnoringNotes(user, transaction) ==
    <<ToString(user.tenantId),
      ToString(user.customerId),
      OrElse(transaction.occurredAt, ""),
      AmountToString(transaction.amount),
      OrElse(transaction.description, "")>>

\* The array that persistTransaction joins with ":" and hashes
FallbackKeyParts(user, transaction) ==
    <<ToString(user.tenantId),
      ToString(user.customerId),
      OrElse(transaction.occurredAt, ""),
      AmountToString(transaction.amount),
      OrElse(transaction.description, OrElse(transaction.notes, ""))>>

\* Array.prototype.join(":")
JoinWithColon(parts) ==
    parts[1] \o ":" \o parts[2] \o ":" \o parts[3] \o ":" \o parts[4] \o ":" \o parts[5]

\* createHash("sha256").update(text).digest("hex").slice(0, 24): a digest that
\* is the same for the same text and differs for the texts of this model
Sha256Hex24(text) == "sha256[" \o text \o "]"

\* externalReference = transaction.idempotencyKey ?? "chat-" + fallbackKey
ChatExternalReference(user, transaction) ==
    OrElse(transaction.idempotencyKey,
           "chat-" \o Sha256Hex24(JoinWithColon(FallbackKeyParts(user, transaction))))

ToolExecutionResult(status, error, reference, id) ==
    [tool |-> "transactions.create", status |-> status, error |-> error,
     reference |-> reference, id |-> id]

IdlePersist ==
    [pc |-> "idle",
     db |-> FALSE,
     user |-> CHOOSE u \in AuthenticatedUsers : TRUE,
     transaction |-> CHOOSE t \in ChatTransactions : TRUE,
     externalReference |-> "",
     result |-> Absent]

\* persistTransaction up to its first await: the early returns, and the
\* externalReference of the insert
PersistStart(db, user, transaction) ==
    LET started == [IdlePersist EXCEPT !.db = db, !.user = user,
                                       !.transaction = transaction]
        returns(result) == [started EXCEPT !.pc = "done", !.result = Present(result)]
    IN IF ~db
       THEN returns(ToolExecutionResult("skipped", "Database unavailable", "", 0))
       ELSE IF transaction.amount = Absent \/ transaction.currency = Absent
       THEN returns(ToolExecutionResult("error", "Missing amount or currency", "", 0))
       ELSE IF ~transaction.amount[1].finite
       THEN returns(ToolExecutionResult("error", "Invalid amount", "", 0))
       ELSE [started EXCEPT !.pc = "insert",
                            !.externalReference = ChatExternalReference(user, transaction)]

\* A direct invocation of the tool handler
InvokePersist(p) ==
    /\ persists[p].pc = "idle"
    /\ \A o \in PersistIds : o < p => persists[o].pc # "idle"
    /\ \E user \in AuthenticatedUsers, transaction \in ChatTransactions :
          persists' = [persists EXCEPT ![p] = PersistStart(database, user, transaction)]
    /\ UNCHANGED <<paymentIntents, database, chats>>

\* persistTransaction: insert ... onConflictDoNothing({target: [tenantId,
\* externalReference]}).returning({id})
PersistInsert(p) ==
    /\ persists[p].pc = "insert"
    /\ LET me == persists[p]
           id == Cardinality(paymentIntents) + 1
       IN IF PaymentIntentsWithReference(me.user.tenantId, me.externalReference) = {}
          THEN /\ paymentIntents' = paymentIntents \cup
                      {[id |-> id,
                        tenantId |-> me.user.tenantId,
                        customerId |-> me.user.customerId,
                        externalReference |-> me.externalReference,
                        amount |-> me.transaction.amount[1].value]}
               /\ persists' = [persists EXCEPT
                      ![p].pc = "done",
                      ![p].result = Present(ToolExecutionResult(
                          "success", "", me.externalReference, id))]
          ELSE /\ persists' = [persists EXCEPT ![p].pc = "select"]
               /\ UNCHANGED paymentIntents
    /\ UNCHANGED <<database, chats>>

\* persistTransaction: the insert rejects (the connection fails); nothing in
\* persistTransaction or in the handler catches it
PersistInsertRejects(p) ==
    /\ persists[p].pc = "insert"
    /\ persists' = [persists EXCEPT ![p].pc = "failed"]
    /\ UNCHANGED <<paymentIntents, database, chats>>

\* persistTransaction: the select of the existing row after a conflict
PersistSelect(p) ==
    /\ persists[p].pc = "select"
    /\ LET me == persists[p]
           existing == PaymentIntentsWithReference(me.user.tenantId, me.externalReference)
           id == IF existing = {} THEN 0 ELSE (CHOOSE r \in existing : TRUE).id
       IN persists' = [persists EXCEPT
              ![p].pc = "done",
              ![p].result = Present(ToolExecutionResult(
                  "success", "", me.externalReference, id))]
    /\ UNCHANGED <<paymentIntents, database, chats>>

-----------------------------------------------------------------------------
(* orchestrate of src/orchestrator/index.ts and POST /chat                 *)

IntentNames == {"record_transaction", "budget_summary", "general_question", "unknown"}

\* Confidences of the classifier, in hundredths
Confidences == {39, 40}

\* confidence < 0.4, in hundredths
LowConfidenceThreshold == 40

ClarifyingFollowup == "Could you clarify your request so I can recommend the right action?"

PlanStep(id, type, action, tool, dependsOn) ==
    [id |-> id, type |-> type, action |-> action, tool |-> tool, dependsOn |-> dependsOn]

\* A mapping that also persists in the plan of a summary
BuildPlanPersistingSummaries(intent) ==
    IF intent = "budget_summary"
    THEN <<PlanStep("retrieve-context", "retrieval", "", "", {}),
           PlanStep("summarize-month", "llm", "summarize-month", "", {"retrieve-context"}),
           PlanStep("persist-summary", "tool", "", "transactions.create",
                    {"summarize-month"}),
           PlanStep("respond-user", "synthesis", "", "", {"persist-summary"})>>
    ELSE <<PlanStep("respond-user", "synthesis", "", "", {})>>

BuildPlan(intent) ==
    CASE intent = "record_transaction" ->
           <<PlanStep("extract-transaction", "llm", "extract-transaction", "", {}),
             PlanStep("persist-transaction", "tool", "", "transactions.create",
                      {"extract-transaction"}),
             PlanStep("respond-user", "synthesis", "", "", {"persist-transaction"})>>
      [] intent = "budget_summary" ->
           <<PlanStep("retrieve-context", "retrieval", "", "", {}),
             PlanStep("summarize-month", "llm", "summarize-month", "", {"retrieve-context"}),
             PlanStep("respond-user", "synthesis", "", "", {"summarize-month"})>>
      [] intent = "general_question" ->
           <<PlanStep("retrieve-context", "retrieval", "", "", {}),
             PlanStep("respond-user", "synthesis", "", "", {"retrieve-context"})>>
      [] OTHER ->
           <<PlanStep("respond-user", "synthesis", "", "", {})>>

\* The followup with the comparison reversed
FollowupAboveThreshold(confidence) ==
    IF confidence > LowConfidenceThreshold THEN Present(ClarifyingFollowup) ELSE Absent

\* followup of the chat response
Followup(confidence) ==
    IF confidence < LowConfidenceThreshold THEN Present(ClarifyingFollowup) ELSE Absent

\* The message executeSynthesisStep writes for an intent
SynthesisMessage(intent) ==
    CASE intent = "record_transaction" -> "Got it! I've recorded"
      [] intent = "budget_summary" -> "summary"
      [] intent = "general_question" -> "answer"
      [] OTHER -> "I'm not sure how to help with that yet"

IdleChat ==
    [pc |-> "idle",
     user |-> CHOOSE u \in AuthenticatedUsers : TRUE,
     intent |-> "unknown",
     confidence |-> 0,
     plan |-> <<>>,
     step |-> 0,
     tools |-> TRUE,
     vectorStore |-> Present(<<>>),
     retrievedDocuments |-> <<>>,
     stepDocuments |-> Absent,
     stepResults |-> {},
     extraction |-> Absent,
     toolResults |-> <<>>,
     toolInvocations |-> 0,
     modelCalls |-> 0,
     ran |-> <<>>,
     written |-> <<>>,
     finalMessage |-> "",
     error |-> "",
     response |-> Absent]

ChatInFlight(q) == chats[q].pc \notin {"idle", "done"}

\* An error thrown in orchestrate: the request ends without a chat response
Thrown(chat, error) ==
    [chat EXCEPT !.pc = "done",
                 !.error = error,
                 !.response = Present([status |-> 500, reply |-> "",
                                       followup |-> Absent])]

\* A provider call (chat model or embeddings) that rejects after its retries
ChatFails(q) == chats' = [chats EXCEPT ![q] = Thrown(@, "ProviderError")]

\* The end of one iteration of the loop of executePlan; after the last step
\* the fallback synthesis runs when no finalMessage was produced
Advance(chat) ==
    IF chat.step < Len(chat.plan)
    THEN [chat EXCEPT !.step = chat.step + 1]
    ELSE IF chat.finalMessage = ""
    THEN [chat EXCEPT !.pc = "fallback"]
    ELSE [chat EXCEPT !.pc = "respond"]

CurrentStep(q) == chats[q].plan[chats[q].step]

\* The switch of executePlan passes the step to its executor
Run(q) == [chats[q] EXCEPT !.ran = Append(@, CurrentStep(q).id)]

\* state.stepResults[step.id] = ...
Write(chat, id) ==
    [chat EXCEPT !.stepResults = @ \cup {id}, !.written = Append(@, id)]

\* A step is dispatched whatever its dependencies are
AtStepIgnoringDependencies(q, type) ==
    /\ chats[q].pc = "step"
    /\ CurrentStep(q).type = type

AtStep(q, type) ==
    /\ chats[q].pc = "step"
    /\ CurrentStep(q).type = type
    /\ CurrentStep(q).dependsOn \subseteq chats[q].stepResults

\* The users whose chat requests are followed; the requests of two users
\* meet in the tool handler, whose invocations PersistSpec interleaves
ChatUsers == {user \in AuthenticatedUsers : user.userId = "u1"}

\* router.post("/chat"): requireUser, the rate limit and the body schema
ChatReceive(q) ==
    /\ chats[q].pc = "idle"
    /\ \A o \in ChatIds : o < q => chats[o].pc # "idle"
    /\ \E user \in ChatUsers :
          chats' = [chats EXCEPT ![q].pc = "classify", ![q].user = user]
    /\ UNCHANGED <<paymentIntents, database, persists>>

\* orchestrate: classifyIntent, IntentSchema.parse and buildPlan
Classify(q) ==
    /\ chats[q].pc = "classify"
    /\ \/ ChatFails(q)
       \/ \E intent \in IntentNames, confidence \in Confidences :
             chats' = [chats EXCEPT ![q].pc = "step",
                                    ![q].intent = intent,
                                    ![q].confidence = confidence,
                                    ![q].plan = BuildPlan(intent),
                                    ![q].step = 1]
    /\ UNCHANGED <<paymentIntents, database, persists>>

\* executePlan: a step whose dependsOn is not in stepResults
StepDependencyUnmet(q) ==
    /\ chats[q].pc = "step"
    /\ ~(CurrentStep(q).dependsOn \subseteq chats[q].stepResults)
    /\ chats' = [chats EXCEPT ![q] = Thrown(@, "Plan dependency unmet")]
    /\ UNCHANGED <<paymentIntents, database, persists>>

\* A document as a vector store returns it (RetrievalDocumentSchema)
RetrievalDocument(id, userId) == [id |-> id, userId |-> userId]

\* What dependencies.vectorStore.search can return: nothing, documents of the
\* requesting user, of another user, and of both
RetrievalResults ==
    {<<>>,
     <<RetrievalDocument(1, "u1")>>,
     <<RetrievalDocument(2, "u2")>>,
     <<RetrievalDocument(1, "u1"), RetrievalDocument(2, "u2"),
       RetrievalDocument(3, "u1")>>,
     <<RetrievalDocument(2, "u2"), RetrievalDocument(1, "u1"),
       RetrievalDocument(4, "u2")>>}

\* dependencies.vectorStore: none, or a store with the documents its search
\* returns
VectorStores == {Absent} \cup {Present(documents) : documents \in RetrievalResults}

\* The documents kept without the filter
AllDocuments(documents, userId) == documents

\* documents.filter((doc) => doc.userId === request.userId)
OwnDocuments(documents, userId) ==
    SelectSeq(documents, LAMBDA doc : doc.userId = userId)

\* executeRetrievalStep: without a vector store the step result is empty;
\* otherwise embedTexts (which can reject), the search and the filter
StepRetrieval(q) ==
    /\ AtStep(q, "retrieval")
    /\ IF chats[q].vectorStore = Absent
       THEN chats' = [chats EXCEPT ![q] =
               Advance([Write(Run(q), CurrentStep(q).id) EXCEPT
                           !.stepDocuments = Present(<<>>)])]
       ELSE \/ chats' = [chats EXCEPT ![q] = Thrown(Run(q), "ProviderError")]
            \/ LET filtered == OwnDocuments(chats[q].vectorStore[1],
                                            chats[q].user.userId)
               IN chats' = [chats EXCEPT ![q] =
                      Advance([Write(Run(q), CurrentStep(q).id) EXCEPT
                                  !.retrievedDocuments = filtered,
                                  !.stepDocuments = Present(filtered)])]
    /\ UNCHANGED <<paymentIntents, database, persists>>

\* What a call of extractTransaction or summarizeMonthLLM can come to: the
\* provider rejects, coerceJSON finds no JSON, or JSON that does or does not
\* match the schema of the step
ModelOutputs == {"rejected", "unparseable", "invalid", "valid"}

\* The call of the model in an LLM step
ModelCalled(chat) == [chat EXCEPT !.modelCalls = @ + 1]

\* executeLLMStep
StepLLM(q) ==
    /\ AtStep(q, "llm")
    /\ IF CurrentStep(q).action \notin {"extract-transaction", "summarize-month"}
       THEN chats' = [chats EXCEPT ![q] = Thrown(Run(q), "Unsupported LLM action")]
       ELSE \E output \in ModelOutputs :
               CASE output = "rejected" ->
                      chats' = [chats EXCEPT ![q] =
                          Thrown(ModelCalled(Run(q)), "ProviderError")]
                 [] output = "unparseable" ->
                      chats' = [chats EXCEPT ![q] =
                          Thrown(ModelCalled(Run(q)), "Failed to parse JSON from model output")]
                 [] output = "invalid" ->
                      chats' = [chats EXCEPT ![q] =
                          Thrown(ModelCalled(Run(q)), "ZodError")]
                 [] output = "valid" ->
                      IF CurrentStep(q).action = "extract-transaction"
                      THEN \E transaction \in ChatExtractions :
                              chats' = [chats EXCEPT ![q] =
                                  Advance([Write(ModelCalled(Run(q)), CurrentStep(q).id)
                                              EXCEPT !.extraction = Present(transaction)])]
                      ELSE chats' = [chats EXCEPT ![q] =
                              Advance(Write(ModelCalled(Run(q)), CurrentStep(q).id))]
    /\ UNCHANGED <<paymentIntents, database, persists>>

\* The handler that POST /chat registers as transactions.create: a payload
\* that is not a TransactionSchema value is answered without persistTransaction
InvokeTool(db, user, extraction) ==
    IF extraction = Absent
    THEN [IdlePersist EXCEPT
             !.pc = "done", !.db = db, !.user = user,
             !.result = Present(ToolExecutionResult(
                 "error", "Invalid transaction payload", "", 0))]
    ELSE PersistStart(db, user, extraction[1])

\* executeToolStep up to the await of the handler: a step without tool
\* throws, an unregistered tool is recorded as skipped, a registered handler
\* is invoked with the extracted transaction
StepTool(q) ==
    /\ AtStep(q, "tool")
    /\ IF CurrentStep(q).tool = ""
       THEN /\ chats' = [chats EXCEPT ![q] =
                   Thrown(Run(q), "Tool step missing tool identifier")]
            /\ UNCHANGED persists
       ELSE IF ~chats[q].tools
       THEN /\ chats' = [chats EXCEPT ![q] =
                   Advance([Write(Run(q), CurrentStep(q).id) EXCEPT
                       !.toolResults = Append(@,
                           [ToolExecutionResult("skipped", "Tool handler not registered",
                                                "", 0)
                               EXCEPT !.tool = CurrentStep(q).tool])])]
            /\ UNCHANGED persists
       ELSE /\ chats' = [chats EXCEPT ![q] =
                   [Run(q) EXCEPT !.pc = "tool", !.toolInvocations = @ + 1]]
            /\ persists' = [persists EXCEPT ![q] =
                   InvokeTool(database, chats[q].user, chats[q].extraction)]
    /\ UNCHANGED <<paymentIntents, database>>

\* executeToolStep: the handler has returned
StepToolReturns(q) ==
    /\ chats[q].pc = "tool"
    /\ persists[q].pc = "done"
    /\ chats' = [chats EXCEPT ![q] =
          Advance([Write(chats[q], CurrentStep(q).id) EXCEPT
                      !.pc = "step",
                      !.toolResults = Append(@, persists[q].result[1])])]
    /\ UNCHANGED <<paymentIntents, database, persists>>

\* executeToolStep: the handler has rejected; nothing catches it
StepToolThrows(q) ==
    /\ chats[q].pc = "tool"
    /\ persists[q].pc = "failed"
    /\ chats' = [chats EXCEPT ![q] = Thrown(@, "DatabaseError")]
    /\ UNCHANGED <<paymentIntents, database, persists>>

\* The body of executeSynthesisStep: nothing when a finalMessage exists, a
\* parse of the step result the intent needs, or the call of the chat model
Synthesised(chat) ==
    IF chat.finalMessage # "" THEN {chat}
    ELSE CASE chat.intent = "record_transaction" ->
                IF chat.extraction = Absent
                THEN {Thrown(chat, "ZodError")}
                ELSE {[chat EXCEPT !.finalMessage = SynthesisMessage(chat.intent)]}
           [] chat.intent = "budget_summary" ->
                IF "summarize-month" \notin chat.stepResults
                THEN {Thrown(chat, "ZodError")}
                ELSE {[chat EXCEPT !.finalMessage = SynthesisMessage(chat.intent)]}
           [] chat.intent = "general_question" ->
                {Thrown(chat, "ProviderError"),
                 [chat EXCEPT !.finalMessage = SynthesisMessage(chat.intent)]}
           [] OTHER ->
                {[chat EXCEPT !.finalMessage = SynthesisMessage(chat.intent)]}

\* executeSynthesisStep as a step of the plan
StepSynthesis(q) ==
    /\ AtStep(q, "synthesis")
    /\ \E chat \in Synthesised(Run(q)) :
          chats' = [chats EXCEPT ![q] = IF chat.pc = "done" THEN chat ELSE Advance(chat)]
    /\ UNCHANGED <<paymentIntents, database, persists>>

\* executePlan: the synthesis-fallback after the loop
FallbackSynthesis(q) ==
    /\ chats[q].pc = "fallback"
    /\ \E chat \in Synthesised(chats[q]) :
          chats' = [chats EXCEPT ![q] =
              IF chat.pc = "done" THEN chat ELSE [chat EXCEPT !.pc = "respond"]]
    /\ UNCHANGED <<paymentIntents, database, persists>>

\* The steps of executePlan
PlanStepTaken(q) ==
    \/ StepDependencyUnmet(q)
    \/ StepRetrieval(q)
    \/ StepLLM(q)
    \/ StepTool(q)
    \/ StepToolReturns(q)
    \/ StepToolThrows(q)
    \/ StepSynthesis(q)
    \/ FallbackSynthesis(q)

-----------------------------------------------------------------------------
(* The monthly memory: computeMonthlyMemory of src/memory/monthly.ts, the  *)
(* insight store of storage/insights, the embedding store of               *)
(* services/embeddings and the vector store insightVectorStore.            *)
(* All of it is synchronous code: a call is one atomic step.               *)
(* Ratios are kept in thousandths (1000 is the ratio 1).                   *)

\* Number of calls of computeMonthlyMemory in a run
MaxComputes == 3

\* Strings that match /^\d{4}-\d{2}$/ (MonthlyComputationInput.month)
MonthStrings == {"2024-01", "2024-02"}

\* The months a request body may carry: month is z.string()
PayloadMonths == MonthStrings \cup {"2024-01:2024-02"}

\* The user ids of the memory: the sub of a token or the id of a customer
MemoryUsers == {"u1", "u1:2024-01"}

\* A list of transactions is kept as its runs of equal transactions: an
\* element stands for `times` consecutive transactions of one amount and type
MonthlyTransaction(amount, type) == [amount |-> amount, type |-> type, times |-> 1]

Repeated(transaction, times) == [transaction EXCEPT !.times = times]

RECURSIVE Length(_)
\* transactions.length
Length(transactions) ==
    IF transactions = <<>> THEN 0
    ELSE Head(transactions).times + Length(Tail(transactions))

\* The transaction lists of the computations
TransactionLists ==
    {<<MonthlyTransaction(100, "income")>>,
     <<MonthlyTransaction(200, "income"), MonthlyTransaction(0 - 50, "expense"),
       MonthlyTransaction(30, "investment")>>}

Abs(n) == IF n < 0 THEN 0 - n ELSE n

RECURSIVE Sum(_, _)
\* The total of |amount| over the transactions of a type
Sum(transactions, type) ==
    IF transactions = <<>>
    THEN 0
    ELSE LET head == Head(transactions)
         IN (IF head.type = type THEN Abs(head.amount) * head.times ELSE 0)
            + Sum(Tail(transactions), type)

ClampTo(value, min, max) ==
    LET raised == IF value > min THEN value ELSE min
    IN IF raised < max THEN raised ELSE max

Max2(a, b) == IF a > b THEN a ELSE b

Min2(a, b) == IF a < b THEN a ELSE b

\* Array.prototype.slice(start, end) for 0 <= start
Slice(array, start, end) == SubSeq(array, start + 1, Min2(end, Len(array)))

\* The ratio numerator / denominator in thousandths
Ratio(numerator, denominator) == (numerator * 1000) \div denominator

KpiKeys ==
    <<"income", "expenses", "investments", "debtPayments", "cashFlow",
      "savingsRate", "investmentRate", "debtToIncome", "expenseRatio",
      "debtOutstanding", "netWorth", "topExpenseCategory">>

\* The KPI values of computeMonthlyMemory, for an input without previous
\* month and categories
ComputeKpisOf(transactions, balances) ==
    LET totalIncome == Sum(transactions, "income")
        totalExpenses == Sum(transactions, "expense")
        totalInvestments == Sum(transactions, "investment")
        totalDebtPayments == Sum(transactions, "debt")
        debtOutstanding == IF balances = Absent THEN 0 ELSE balances[1].debt
        cash == IF balances = Absent THEN 0 ELSE balances[1].cash
        invested == IF balances = Absent THEN 0 ELSE balances[1].investments
    IN [income |-> totalIncome,
        expenses |-> totalExpenses,
        investments |-> totalInvestments,
        debtPayments |-> totalDebtPayments,
        cashFlow |-> totalIncome - totalExpenses - totalInvestments
                     - totalDebtPayments,
        savingsRate |-> IF totalIncome > 0
                        THEN ClampTo(Ratio(totalIncome - totalExpenses, totalIncome),
                                     0, 1500)
                        ELSE 0,
        investmentRate |-> IF totalIncome > 0
                           THEN ClampTo(Ratio(totalInvestments, totalIncome), 0, 1500)
                           ELSE 0,
        debtToIncome |-> IF totalIncome > 0
                         THEN ClampTo(Ratio(debtOutstanding, totalIncome), 0, 2000)
                         ELSE 0,
        expenseRatio |-> IF totalIncome > 0
                         THEN ClampTo(Ratio(totalExpenses, totalIncome), 0, 2000)
                         ELSE 0,
        debtOutstanding |-> debtOutstanding,
        netWorth |-> cash + invested - debtOutstanding,
        topExpenseCategory |-> 0]

\* The KPI values for an input without balances
ComputeKpis(transactions) == ComputeKpisOf(transactions, Absent)

\* A story is its text and the white space before and after it.
\* craftMonthlyStory: a text determined by the month and the KPI values; it
\* starts with "In" and ends with "." or with padding dots
CraftMonthlyStory(month, kpis) ==
    [leading |-> 0, text |-> <<month, kpis>>, trailing |-> 0]

\* String.prototype.trim
Trim(story) == [story EXCEPT !.leading = 0, !.trailing = 0]

\* `${userId}:${month}`
InsightId(userId, month) == userId \o ":" \o month

\* A ratio in thousandths as a coordinate in tenths: the coordinates of the
\* vectors are kept in tenths, which keeps the products of a search small
Tenths(thousandths) ==
    IF thousandths < 0 THEN 0 - ((0 - thousandths) \div 100)
    ELSE thousandths \div 100

\* The 7 coordinates of the embedding vector
EmbeddingVector(kpis) ==
    LET incomeScale == Max2(Max2(kpis.income, kpis.expenses),
                            Max2(Abs(kpis.cashFlow), 1))
    IN <<Tenths(ClampTo(Ratio(kpis.income, incomeScale), 0 - 1000, 1000)),
         Tenths(ClampTo(Ratio(kpis.expenses, incomeScale), 0 - 1000, 1000)),
         Tenths(ClampTo(Ratio(kpis.cashFlow, incomeScale), 0 - 1000, 1000)),
         Tenths(ClampTo(kpis.savingsRate, 0, 1000)),
         Tenths(ClampTo(kpis.investmentRate, 0, 1000)),
         Tenths(ClampTo(kpis.debtToIncome, 0, 1000)),
         Tenths(ClampTo(kpis.expenseRatio, 0, 1000))>>

RECURSIVE Dot(_, _)
\* The dot product over the common length of two vectors
Dot(a, b) ==
    IF a = <<>> \/ b = <<>>
    THEN 0
    ELSE Head(a) * Head(b) + Dot(Tail(a), Tail(b))

\* normalizeVector: the vector direction / sqrt(norm2), kept exactly as the
\* pair of its direction and its squared length; a vector of length 0 is
\* mapped to zeros
NormalizeVector(vector) ==
    IF Dot(vector, vector) = 0
    THEN [direction |-> [i \in 1..Len(vector) |-> 0], norm2 |-> 1]
    ELSE [direction |-> vector, norm2 |-> Dot(vector, vector)]

\* The insight record that computeMonthlyMemory builds
MonthlyInsight(userId, month, transactions, now) ==
    LET kpis == ComputeKpis(transactions)
    IN [id |-> InsightId(userId, month), userId |-> userId, month |-> month,
        kpis |-> kpis, story |-> CraftMonthlyStory(month, kpis),
        createdAt |-> Clock(now)]

IndexOf(seq, Matches(_)) ==
    IF \E i \in 1..Len(seq) : Matches(seq[i])
    THEN CHOOSE i \in 1..Len(seq) :
            Matches(seq[i]) /\ \A j \in 1..(i - 1) : ~Matches(seq[j])
    ELSE 0

\* An upsert that pushes on every call
UpsertInsightAppending(store, insight) ==
    Append(store, [insight EXCEPT !.story = Trim(insight.story)])

\* upsertInsight on a store: replace the record of (userId, month) or push

UpsertInsight(store, insight) ==
    LET SamePair(existing) ==
            existing.userId = insight.userId /\ existing.month = insight.month
        index == IndexOf(store, SamePair)
        normalized == [insight EXCEPT !.story = Trim(insight.story)]
    IN IF index > 0
       THEN [store EXCEPT ![index] = normalized]
       ELSE Append(store, normalized)

\* upsertEmbedding on a Map kept in insertion order: set(id, record)
UpsertEmbedding(records, id, vector, metadata) ==
    LET SameId(existing) == existing.id = id
        index == IndexOf(records, SameId)
        record == [id |-> id, vector |-> NormalizeVector(vector),
                   metadata |-> metadata]
    IN IF index > 0
       THEN [records EXCEPT ![index] = record]
       ELSE Append(records, record)

\* The two stores after computeMonthlyMemory(userId, month, transactions)
MemoryAfter(memory, userId, month, transactions, now) ==
    LET insight == MonthlyInsight(userId, month, transactions, now)
    IN [insights |-> UpsertInsight(memory.insights, insight),
        embeddings |-> UpsertEmbedding(memory.embeddings, insight.id,
                                       EmbeddingVector(insight.kpis),
                                       [userId |-> userId, month |-> month,
                                        kpis |-> KpiKeys])]

\* listInsights(userId) and listInsights()
ListInsights(store, userId) ==
    SelectSeq(store, LAMBDA entry : entry.userId = userId)

ListAllInsights(store) == store

\* listEmbeddings(): the records of the Map, in insertion order
ListEmbeddings(records) == records

\* cosineSimilarity of a query and a stored vector: the number
\* dot / sqrt(normA * normB), kept exactly as (dot, normA, normB); 0 when
\* a vector is empty or has length 0
CosineSimilarity(a, stored) ==
    LET b == stored.direction
        dot == Dot(a, b)
        length == IF Len(a) < Len(b) THEN Len(a) ELSE Len(b)
        normA == Dot(SubSeq(a, 1, length), a)
        normB == Dot(SubSeq(b, 1, length), b)
    IN IF a = <<>> \/ b = <<>> \/ normA = 0 \/ normB = 0
       THEN [dot |-> 0, normA |-> 1, normB |-> 1]
       ELSE [dot |-> dot, normA |-> normA, normB |-> normB]

\* scoreB - scoreA > 0 for two scores of one search, compared on the signed
\* squares; the scores of one search have the query, and so normA, in common
ScoreGreater(s, t) ==
    LET Signed(x, other) ==
            (IF x.dot < 0 THEN 0 - 1 ELSE 1) * x.dot * x.dot * other.normB
    IN Signed(s, t) > Signed(t, s)

RECURSIVE SortByScore(_)
\* Array.prototype.sort with (a, b) => scoreB - scoreA: stable, descending
SortByScore(documents) ==
    IF documents = <<>>
    THEN <<>>
    ELSE LET sorted == SortByScore(SubSeq(documents, 1, Len(documents) - 1))
             last == documents[Len(documents)]
             before == {i \in 1..Len(sorted) :
                          ScoreGreater(last.metadata.score, sorted[i].metadata.score)}
             position == IF before = {}
                         THEN Len(sorted) + 1
                         ELSE CHOOSE i \in before : \A j \in before : i <= j
         IN SubSeq(sorted, 1, position - 1) \o <<last>>
            \o SubSeq(sorted, position, Len(sorted))

\* The document of one embedding record, or nothing when the insight is gone
SearchDocument(record, insights, userId, queryEmbedding) ==
    LET SameId(entry) == entry.id = record.id
        index == IndexOf(insights, SameId)
    IN IF index = 0
       THEN <<>>
       ELSE <<[id |-> record.id, userId |-> userId,
               content |-> insights[index].story,
               metadata |-> [userId |-> record.metadata.userId,
                             score |-> CosineSimilarity(queryEmbedding, record.vector),
                             month |-> insights[index].month,
                             kpis |-> insights[index].kpis]]>>

RECURSIVE SearchDocuments(_, _, _, _)
SearchDocuments(records, insights, userId, queryEmbedding) ==
    IF records = <<>>
    THEN <<>>
    ELSE SearchDocument(Head(records), insights, userId, queryEmbedding)
         \o SearchDocuments(Tail(records), insights, userId, queryEmbedding)

\* A search that scopes neither the embeddings nor the insights
VectorSearchUnscoped(records, store, userId, queryEmbedding, options) ==
    LET limit == OrElse(options, 5)
        documents == SortByScore(SearchDocuments(ListEmbeddings(records),
                                                 ListAllInsights(store),
                                                 userId, queryEmbedding))
    IN Slice(documents, 0, Max2(1, limit))

\* insightVectorStore.search(userId, queryEmbedding, options)
VectorSearch(records, store, userId, queryEmbedding, options) ==
    LET limit == OrElse(options, 5)
        scoped == SelectSeq(ListEmbeddings(records),
                            LAMBDA record : record.metadata.userId = userId)
        documents == SortByScore(SearchDocuments(scoped, ListInsights(store, userId),
                                                 userId, queryEmbedding))
    IN IF scoped = <<>>
       THEN <<>>
       ELSE Slice(documents, 0, Max2(1, limit))

\* The query vectors and the limits of the searches
QueryEmbeddings ==
    {<<1, 0, 1, 1, 0, 0, 0>>, <<0, 1, 0, 0, 1, 0, 1>>}

SearchOptions == {Absent, Present(0)}

MemoryIdle ==
    /\ insightStore = <<>>
    /\ embeddings = <<>>
    /\ computations = 0
    /\ apiResponse = [op |-> "none"]

\* One call of computeMonthlyMemory, as POST /insights and insights.compute
\* make it
ComputeMonthlyMemory(userId, month, transactions) ==
    /\ computations < MaxComputes
    /\ LET after == MemoryAfter([insights |-> insightStore,
                                 embeddings |-> embeddings],
                                userId, month, transactions, computations + 1)
       IN /\ insightStore' = after.insights
          /\ embeddings' = after.embeddings
          /\ apiResponse' =
                [op |-> "computeMonthlyMemory",
                 insight |-> MonthlyInsight(userId, month, transactions,
                                            computations + 1)]
    /\ computations' = computations + 1

\* One call of insightVectorStore.search
Search(userId, queryEmbedding, options) ==
    /\ apiResponse' =
          [op |-> "search", userId |-> userId,
           documents |-> VectorSearch(embeddings, insightStore, userId,
                                      queryEmbedding, options)]
    /\ UNCHANGED <<insightStore, embeddings, computations>>

-----------------------------------------------------------------------------
(* GET /benchmarks of src/api/v1/index.ts over the customers of the API    *)

\* The customers of the API: ids are uuids, here "c1", "c2" of tenant "t1"
\* and "c3" of tenant "t2"
ApiCustomerIds == {"c1", "c2", "c3"}

ApiTenantOf(id) == IF id = "c3" THEN "t2" ELSE "t1"

\* customers.metadata: the two opt-in flags and the cohort of the customer
CustomerMetadata(allowTopLevel, allowPreference, region) ==
    [allow_benchmarking |-> allowTopLevel,
     preferences |-> [allowBenchmarking |-> allowPreference],
     region |-> region, income_band |-> "B40"]

RegionOf(id) == IF id = "c2" THEN "SG" ELSE "MY"

\* A customers row as the API reads it
ApiCustomer(id, allowTopLevel, allowPreference) ==
    [id |-> id, tenantId |-> ApiTenantOf(id), externalReference |-> id,
     metadata |-> CustomerMetadata(allowTopLevel, allowPreference, RegionOf(id))]

\* The states of table customers: one row per customer, any opt-in flags
ApiCustomerTables ==
    {{ApiCustomer(id, top[id], preference[id]) : id \in ApiCustomerIds} :
        top \in [ApiCustomerIds -> BOOLEAN],
        preference \in {[id \in ApiCustomerIds |-> id = "c2" /\ flag] :
                           flag \in BOOLEAN}}

\* The AuthenticatedUser that requireUser resolves for a customers row
UserOfCustomer(row) ==
    [userId |-> row.id, customerId |-> row.id, tenantId |-> row.tenantId]

\* allowsBenchmarking that reads no flag
AllowsBenchmarkingAlways(metadata) == TRUE

\* allowsBenchmarking(metadata)
AllowsBenchmarking(metadata) ==
    \/ metadata.allow_benchmarking = TRUE
    \/ /\ "allowBenchmarking" \in DOMAIN metadata.preferences
       /\ metadata.preferences.allowBenchmarking = TRUE

\* extractCohort(metadata)
ExtractCohort(metadata) ==
    [region |-> metadata.region, income_band |-> metadata.income_band]

\* Number((numerator / denominator).toFixed(digits)) in units of the last
\* digit, for numerator >= 0
ToFixed(numerator, denominator) ==
    (2 * numerator + denominator) \div (2 * denominator)

RECURSIVE AggregateCohorts(_, _, _)
\* The Map cohorts after the loop over the insights, in insertion order
AggregateCohorts(insights, rows, cohorts) ==
    IF insights = <<>>
    THEN cohorts
    ELSE LET insight == Head(insights)
             row == CHOOSE r \in rows : r.id = insight.userId
             cohort == ExtractCohort(row.metadata)
             key == cohort.region \o ":" \o cohort.income_band
             SameKey2(entry) == entry.key = key
             index == IndexOf(cohorts, SameKey2)
             entry == IF index > 0
                      THEN cohorts[index]
                      ELSE [key |-> key, region |-> cohort.region,
                            income_band |-> cohort.income_band,
                            incomeTotal |-> 0, savingsTotal |-> 0, count |-> 0]
             updated == [entry EXCEPT
                            !.incomeTotal = @ + insight.kpis.income,
                            !.savingsTotal = @ + insight.kpis.savingsRate,
                            !.count = @ + 1]
         IN AggregateCohorts(Tail(insights), rows,
                             IF index > 0
                             THEN [cohorts EXCEPT ![index] = updated]
                             ELSE Append(cohorts, updated))

\* The payload of the response: averages in hundredths and thousandths
CohortPayload(cohorts) ==
    [i \in 1..Len(cohorts) |->
        [cohort |-> [region |-> cohorts[i].region,
                     income_band |-> cohorts[i].income_band],
         metrics |->
            [income_avg |-> IF cohorts[i].count > 0
                            THEN ToFixed(cohorts[i].incomeTotal * 100, cohorts[i].count)
                            ELSE 0,
             savings_rate_avg |-> IF cohorts[i].count > 0
                                  THEN ToFixed(cohorts[i].savingsTotal, cohorts[i].count)
                                  ELSE 0,
             sample_size |-> cohorts[i].count]]]

BenchmarksResponse(user, status, message, counted, cohorts) ==
    [op |-> "benchmarks", caller |-> user, status |-> status,
     message |-> message, counted |-> counted, cohorts |-> cohorts]

\* The handler of GET /benchmarks for an authenticated user: the select of
\* the tenant's customers and the synchronous aggregation after it
BenchmarksHandler(db, rowsOfTable, store, user) ==
    LET customerRows == {row \in rowsOfTable : row.tenantId = user.tenantId}
        you == {row \in customerRows : row.id = user.customerId}
        allowed == {row.id : row \in {r \in customerRows :
                                        AllowsBenchmarking(r.metadata)}}
        insights == SelectSeq(ListAllInsights(store),
                        LAMBDA insight :
                            /\ insight.userId \in allowed
                            /\ \E row \in customerRows : row.id = insight.userId)
    IN IF ~db
       THEN BenchmarksResponse(user, 503, "BENCHMARKS_DISABLED", <<>>, <<>>)
       ELSE IF you = {} \/ \E row \in you : ~AllowsBenchmarking(row.metadata)
       THEN BenchmarksResponse(user, 403, "BENCHMARK_OPT_IN_REQUIRED", <<>>, <<>>)
       ELSE IF allowed = {}
       THEN BenchmarksResponse(user, 200, "", <<>>, <<>>)
       ELSE BenchmarksResponse(user, 200, "", insights,
                               CohortPayload(AggregateCohorts(insights,
                                                              customerRows, <<>>)))

\* GET /benchmarks by one of the customers
Benchmarks(callerId) ==
    /\ \E row \in customers :
          /\ row.id = callerId
          /\ apiResponse' = BenchmarksHandler(database, customers, insightStore,
                                              UserOfCustomer(row))
    /\ UNCHANGED <<customers, insightStore, embeddings, computations>>

\* A change of the top-level opt-in flag of a customer (an update of
\* customers.metadata made outside the API)
SetOptIn(customerId, allow) ==
    /\ \E row \in customers :
          /\ row.id = customerId
          /\ row.metadata.allow_benchmarking # allow
          /\ customers' = (customers \ {row}) \cup
                {[row EXCEPT !.metadata.allow_benchmarking = allow]}
    /\ apiResponse' = [op |-> "setOptIn"]
    /\ UNCHANGED <<insightStore, embeddings, computations>>

\* Bodies of POST /preferences as preferencesSchema.parse returns them: the
\* keys categories, notifications and goals, each optional; other keys of
\* the body are stripped
PreferencePayloads ==
    {[categories |-> <<"food">>],
     [notifications |-> [email |-> TRUE],
      goals |-> [savingsRate |-> 100]]}

\* { ...(existing?.metadata ?? {}), preferences: payload }
NextMetadata(metadata, payload) ==
    [key \in DOMAIN metadata \cup {"preferences"} |->
        IF key = "preferences" THEN payload ELSE metadata[key]]

\* POST /preferences by a customer: the select of the customer's metadata
\* and the update that follows it, with no other write in between
PostPreferences(customerId, payload) ==
    /\ \E row \in customers :
          /\ row.id = customerId
          /\ IF ~database
             THEN /\ apiResponse' = [op |-> "preferences", caller |-> customerId,
                                     status |-> 503]
                  /\ UNCHANGED customers
             ELSE /\ customers' = (customers \ {row}) \cup
                        {[row EXCEPT !.metadata = NextMetadata(@, payload)]}
                  /\ apiResponse' = [op |-> "preferences", caller |-> customerId,
                                     status |-> 200, preferences |-> payload]
    /\ UNCHANGED <<insightStore, embeddings, computations>>

-----------------------------------------------------------------------------
(* requireUser of the auth module: parseJwt and fetchUserRecord            *)

\* Number of requests that authenticate in a run
MaxAuthRequests == 2

\* A bearer token of three segments: the alg of its header, whether its
\* signature is the HMAC-SHA256 of header.payload under AUTH_SECRET, and the
\* fields of its payload ("" is a missing sub or tenantId)
JwtToken(alg, signed, sub, tenantId, exp) ==
    [alg |-> alg, signed |-> signed,
     payload |-> [sub |-> sub, tenantId |-> tenantId, exp |-> exp]]

\* Date.now() in milliseconds at the time of the request
AuthInstants == {1999, 2000, 2001}

\* exp in seconds
ExpClaims == {Absent, Present(1), Present(2), Present(3)}

\* The tokens of the requests; a request may also carry no token
JwtTokens ==
    {JwtToken(alg, signed, sub, tenantId, exp) :
        alg \in {"HS256", "none"}, signed \in BOOLEAN,
        sub \in {"c1", "c3", "c9", ""}, tenantId \in {"t1", "t2"},
        exp \in ExpClaims}

\* parseJwt(token): the payload, or null
ParseJwt(token, now) ==
    IF token.alg # "HS256" THEN Absent
    ELSE IF ~token.signed THEN Absent
    ELSE IF token.payload.sub = "" \/ token.payload.tenantId = "" THEN Absent
    ELSE IF token.payload.exp # Absent /\ now >= token.payload.exp[1] * 1000
    THEN Absent
    ELSE Present(token.payload)

\* fetchUserRecord without a database: the token is trusted
TrustedUser(payload) ==
    [userId |-> payload.sub, customerId |-> payload.sub,
     tenantId |-> payload.tenantId]

\* fetchUserRecord that does not compare the tenants
FetchUserRecordAnyTenant(rows, payload) ==
    LET found == {row \in rows : row.id = payload.sub}
    IN IF found = {}
       THEN Absent
       ELSE Present(UserOfCustomer(CHOOSE row \in found : TRUE))

\* fetchUserRecord with a database, after its select: the user, or nothing
\* when it throws 401 "Unauthorised user context"
FetchUserRecord(rows, payload) ==
    LET found == {row \in rows : row.id = payload.sub}
    IN IF found = {} \/ \E row \in found : row.tenantId # payload.tenantId
       THEN Absent
       ELSE Present(UserOfCustomer(CHOOSE row \in found : TRUE))

\* The context of a request: c.get("user"), c.get("db") and the outcome
IdleAuth ==
    [pc |-> "idle", token |-> Absent, now |-> 0, payload |-> Absent,
     user |-> Absent, db |-> FALSE, status |-> 0, message |-> ""]

AuthIdle ==
    /\ auth = IdleAuth
    /\ authCount = 0

AuthRejected(request, message) ==
    [request EXCEPT !.pc = "done", !.status = 401, !.message = message]

\* requireUser up to the select of fetchUserRecord
RequireUser(token, now) ==
    /\ auth.pc \in {"idle", "done"}
    /\ authCount < MaxAuthRequests
    /\ authCount' = authCount + 1
    /\ LET request == [IdleAuth EXCEPT !.token = token, !.now = now]
           payload == ParseJwt(token[1], now)
       IN auth' =
            IF token = Absent
            THEN AuthRejected(request, "Authentication required")
            ELSE IF payload = Absent
            THEN AuthRejected(request, "Invalid authentication token")
            ELSE IF ~database
            THEN [request EXCEPT !.pc = "done", !.status = 200,
                                 !.payload = payload,
                                 !.user = Present(TrustedUser(payload[1]))]
            ELSE [request EXCEPT !.pc = "fetchUserRecord", !.db = TRUE,
                                 !.payload = payload]

\* The select of fetchUserRecord and the rest of requireUser
RequireUserFetch ==
    /\ auth.pc = "fetchUserRecord"
    /\ LET user == FetchUserRecord(customers, auth.payload[1])
       IN auth' =
            IF user = Absent
            THEN AuthRejected(auth, "Unauthorised user context")
            ELSE [auth EXCEPT !.pc = "done", !.status = 200, !.user = user]
    /\ UNCHANGED authCount

-----------------------------------------------------------------------------
(* enforceRateLimit of the rate-limit module and the limits of the routes  *)

\* Number of whole windows that the clock of a run covers
MaxWindows == 1

WindowMs == 60000

\* The options that the routes pass to enforceRateLimit
RateLimitOptions(prefix, limit) ==
    [prefix |-> prefix, limit |-> limit, windowMs |-> WindowMs]

RateLimitedRoutes ==
    {RateLimitOptions("chat", 10), RateLimitOptions("insights", 6),
     RateLimitOptions("simulate", 5), RateLimitOptions("upload", 3),
     RateLimitOptions("preferences", 10)}

\* The values of Date.now() at which requests arrive: the start of a
\* window and 999 ms before its end
ClockInstants ==
    {window * WindowMs + offset :
        window \in 0..MaxWindows, offset \in {0, WindowMs - 999}}

\* The header x-forwarded-for of a request, if any
ClientAddresses == {Absent, Present("10.0.0.1")}

\* `${options.key}:${address ?? "unknown"}` with options.key = `${prefix}:${userId}`
BucketKey(options, userId, address) ==
    options.prefix \o ":" \o userId \o ":" \o OrElse(address, "unknown")

BucketKeys ==
    {BucketKey(options, "c1", address) :
        options \in RateLimitedRoutes, address \in ClientAddresses}

\* Math.ceil(numerator / denominator) for denominator > 0
CeilDiv(numerator, denominator) ==
    IF numerator >= 0
    THEN (numerator + denominator - 1) \div denominator
    ELSE 0 - ((0 - numerator) \div denominator)

\* The decision at a full or open window, for a limit compared with >
RateLimitDecisionOffByOne(existing, options, now) ==
    IF existing = Absent \/ existing[1].resetAt <= now
    THEN [admitted |-> TRUE,
          counter |-> [count |-> 1, resetAt |-> now + options.windowMs],
          retryAfter |-> 0]
    ELSE IF existing[1].count > options.limit
    THEN [admitted |-> FALSE, counter |-> existing[1],
          retryAfter |-> Max2(0, CeilDiv(existing[1].resetAt - now, 1000))]
    ELSE [admitted |-> TRUE,
          counter |-> [existing[1] EXCEPT !.count = @ + 1],
          retryAfter |-> 0]

\* enforceRateLimit on the counter of a bucket: whether the request is
\* admitted, the counter afterwards and the retry-after header of a rejection
RateLimitDecision(existing, options, now) ==
    IF existing = Absent \/ existing[1].resetAt <= now
    THEN [admitted |-> TRUE,
          counter |-> [count |-> 1, resetAt |-> now + options.windowMs],
          retryAfter |-> 0]
    ELSE IF existing[1].count >= options.limit
    THEN [admitted |-> FALSE, counter |-> existing[1],
          retryAfter |-> Max2(0, CeilDiv(existing[1].resetAt - now, 1000))]
    ELSE [admitted |-> TRUE,
          counter |-> [existing[1] EXCEPT !.count = @ + 1],
          retryAfter |-> 0]

RateIdle ==
    /\ buckets = [key \in BucketKeys |-> Absent]
    /\ admissions = [key \in BucketKeys |-> [resetAt |-> 0, admitted |-> 0]]
    /\ clockMs = 0
    /\ rateRoute = Absent

\* Time passes
Tick(instant) ==
    /\ instant > clockMs
    /\ clockMs' = instant
    /\ UNCHANGED <<buckets, admissions, rateRoute, apiResponse>>

\* A limiter whose rejections start the window again
EnforceRateLimitExtending(options, address) ==
    LET key == BucketKey(options, "c1", address)
        decision == RateLimitDecision(buckets[key], options, clockMs)
        started == buckets[key] = Absent
                   \/ buckets[key][1].resetAt # decision.counter.resetAt
    IN /\ rateRoute \in {Absent, Present(options.prefix)}
       /\ rateRoute' = Present(options.prefix)
       /\ buckets' = [buckets EXCEPT
                         ![key] = IF decision.admitted
                                  THEN Present(decision.counter)
                                  ELSE Present([decision.counter EXCEPT
                                                   !.resetAt = clockMs + options.windowMs])]
       /\ admissions' =
             IF ~decision.admitted THEN admissions
             ELSE IF started
             THEN [admissions EXCEPT
                      ![key] = [resetAt |-> decision.counter.resetAt,
                                admitted |-> 1]]
             ELSE [admissions EXCEPT ![key].admitted = @ + 1]
       /\ apiResponse' =
             [op |-> "enforceRateLimit", key |-> key, options |-> options,
              now |-> clockMs, before |-> buckets[key],
              admittedBefore |-> admissions[key].admitted,
              admitted |-> decision.admitted,
              status |-> IF decision.admitted THEN 200 ELSE 429,
              code |-> IF decision.admitted THEN "" ELSE "RATE_LIMIT",
              retryAfter |-> decision.retryAfter]
       /\ UNCHANGED clockMs

\* One call of enforceRateLimit by a route for a request of a client. The
\* requests of a run go to one route (rateRoute). admissions counts, for
\* every bucket, the requests admitted since its present window was created.
EnforceRateLimit(options, address) ==
    LET key == BucketKey(options, "c1", address)
        decision == RateLimitDecision(buckets[key], options, clockMs)
        started == buckets[key] = Absent
                   \/ buckets[key][1].resetAt # decision.counter.resetAt
    IN /\ rateRoute \in {Absent, Present(options.prefix)}
       /\ rateRoute' = Present(options.prefix)
       /\ buckets' = [buckets EXCEPT ![key] = Present(decision.counter)]
       /\ admissions' =
             IF ~decision.admitted THEN admissions
             ELSE IF started
             THEN [admissions EXCEPT
                      ![key] = [resetAt |-> decision.counter.resetAt,
                                admitted |-> 1]]
             ELSE [admissions EXCEPT ![key].admitted = @ + 1]
       /\ apiResponse' =
             [op |-> "enforceRateLimit", key |-> key, options |-> options,
              now |-> clockMs, before |-> buckets[key],
              admittedBefore |-> admissions[key].admitted,
              admitted |-> decision.admitted,
              status |-> IF decision.admitted THEN 200 ELSE 429,
              code |-> IF decision.admitted THEN "" ELSE "RATE_LIMIT",
              retryAfter |-> decision.retryAfter]
       /\ UNCHANGED clockMs

-----------------------------------------------------------------------------
(* POST /upload-csv of src/api/v1/index.ts, after requireUser and          *)
(* enforceRateLimit admitted the request. The handler has no await after   *)
(* reading the body: it is one atomic step.                                *)

CsvRowCap == 2000

CsvBatchSize == 500

\* A CSV body: a header line, `rows` non-empty data lines after it, and the
\* position of the first data row whose amount is not a finite number
\* (0: every amount is finite). Row i is "date,description,1,income".
Csv(rows, invalid) == [rows |-> rows, invalid |-> invalid]

UploadedCsvs ==
    {Csv(rows, invalid) :
        rows \in {0, 1, CsvBatchSize, CsvBatchSize + 1, CsvRowCap, CsvRowCap + 1},
        invalid \in {0, 1, CsvBatchSize + 1}} \ {Csv(0, 1), Csv(0, CsvBatchSize + 1),
                                                 Csv(1, CsvBatchSize + 1),
                                                 Csv(CsvBatchSize, CsvBatchSize + 1)}

\* The transactions of rows.slice(index, index + 500)
SliceTransactions(csv, index) ==
    <<Repeated(MonthlyTransaction(1, "income"),
               Min2(index + CsvBatchSize, csv.rows) - index)>>

\* rows.length > 2000, compared with >=
CsvTooLargeAtCap(csv) == csv.rows >= CsvRowCap

\* rows.length > 2000
CsvTooLarge(csv) == csv.rows > CsvRowCap

UploadResponse(status, message, ingestedCount, batches) ==
    [op |-> "uploadCsv", status |-> status, message |-> message,
     ingestedCount |-> ingestedCount, batches |-> batches]

RECURSIVE UploadLoop(_, _, _, _, _)
\* The loop over the rows from `index` on: the stores, the count of
\* computeMonthlyMemory calls and the response when the handler ends.
\* Each batch also records the position of its first row (firstRow).
UploadLoop(run, userId, month, csv, index) ==
    IF index >= csv.rows
    THEN [run EXCEPT !.response = UploadResponse(200, "", run.processed, run.batches)]
    ELSE LET transactions == SliceTransactions(csv, index)
             last == index + Length(transactions)
         IN IF csv.invalid > index /\ csv.invalid <= last
            THEN [run EXCEPT !.response =
                                UploadResponse(400, "INVALID_AMOUNT", 0, <<>>)]
            ELSE UploadLoop(
                    [run EXCEPT
                        !.memory = MemoryAfter(run.memory, userId, month,
                                               transactions, run.computations + 1),
                        !.computations = @ + 1,
                        !.processed = @ + Length(transactions),
                        !.batches = Append(@, [batch |-> Len(run.batches) + 1,
                                               rowCount |-> Length(transactions),
                                               month |-> month,
                                               firstRow |-> index + 1])],
                    userId, month, csv, index + CsvBatchSize)

\* The handler of POST /upload-csv
UploadHandler(memory, now, userId, month, csv) ==
    LET run == [memory |-> memory, computations |-> now, processed |-> 0,
                batches |-> <<>>, response |-> UploadResponse(0, "", 0, <<>>)]
    IN IF csv.rows + 1 <= 1
       THEN [run EXCEPT !.response =
                           UploadResponse(400, "CSV_HEADER_MISSING", 0, <<>>)]
       ELSE IF CsvTooLarge(csv)
       THEN [run EXCEPT !.response = UploadResponse(400, "CSV_TOO_LARGE", 0, <<>>)]
       ELSE UploadLoop(run, userId, month, csv, 0)

\* POST /upload-csv by a user; no request starts after MaxComputes
\* computations
UploadCsv(userId, month, csv) ==
    /\ computations < MaxComputes
    /\ LET run == UploadHandler([insights |-> insightStore,
                                 embeddings |-> embeddings],
                                computations, userId, month, csv)
       IN /\ insightStore' = run.memory.insights
          /\ embeddings' = run.memory.embeddings
          /\ computations' = run.computations
          /\ apiResponse' = [run.response EXCEPT !.op = "uploadCsv"]
                            @@ [userId |-> userId, month |-> month, csv |-> csv]

-----------------------------------------------------------------------------
(* Model providers: the chat router and the embeddings router              *)

\* The provider calls of a behaviour
MaxProviderCalls == 2

\* providers/router: DEFAULT_RETRY
DEFAULT_RETRY == [retries |-> 3, initialDelayMs |-> 250, backoffFactor |-> 2]

\* providers/embeddings-router
RETRIES == 3

INITIAL_DELAY == 200

BACKOFF == 2

ProviderKinds == {"chat", "embed"}

\* withRetry's config: the chat router is called without options, so it
\* takes DEFAULT_RETRY; the embeddings router reads its module constants
RetryConfig(kind) ==
    IF kind = "chat"
    THEN DEFAULT_RETRY
    ELSE [retries |-> RETRIES, initialDelayMs |-> INITIAL_DELAY,
          backoffFactor |-> BACKOFF]

\* What a request to the provider can come to: a 2xx response, a response
\* that is not ok, or a rejection of fetch by the network
FetchOutcomes == {"ok", "non2xx", "networkError"}

\* A call of dispatchChatCall or callProviderBatch with its withRetry:
\*   fetches  what each call of fetch came to, in order ("inFlight" for the
\*            one that is pending)
\*   sleeps   the delays that were started, in order
\*   signal   whether options.signal was given; aborted: whether it has fired
ProviderCall(kind, signal) ==
    [kind |-> kind, pc |-> "idle", signal |-> signal, aborted |-> FALSE,
     attempt |-> 0, waitMs |-> RetryConfig(kind).initialDelayMs,
     fetches |-> <<>>, sleeps |-> <<>>, result |-> Absent]

Fulfilled(value) == [ok |-> TRUE, value |-> value]

Rejected(error) == [ok |-> FALSE, error |-> error]

SetLast(seq, value) == [seq EXCEPT ![Len(seq)] = value]

\* The catch block of withRetry
Catch(call, error) ==
    LET attempt == call.attempt + 1
    IN IF attempt > RetryConfig(call.kind).retries
       THEN [call EXCEPT !.attempt = attempt,
                         !.pc = "done",
                         !.result = Present(Rejected(error))]
       ELSE [call EXCEPT !.attempt = attempt,
                         !.pc = "sleeping",
                         !.sleeps = Append(@, call.waitMs)]

\* operation(): fetch with the request's signal. With a signal that has
\* fired fetch rejects at once, without a request, and withRetry catches it.
Operation(call) ==
    IF call.aborted
    THEN Catch([call EXCEPT !.fetches = Append(@, "AbortError")], "AbortError")
    ELSE [call EXCEPT !.pc = "inFlight", !.fetches = Append(@, "inFlight")]

\* dispatchChatCall / callProviderBatch up to the first fetch
DispatchCall(kind, apiKey, signal) ==
    IF ~apiKey
    THEN [ProviderCall(kind, signal) EXCEPT
              !.pc = "done", !.result = Present(Rejected("Missing API key"))]
    ELSE Operation(ProviderCall(kind, signal))

ProviderIdle ==
    /\ providerCall = ProviderCall("chat", FALSE)
    /\ providerCalls = 0

\* A caller starts a chat or an embedding call
ProviderStart(kind, apiKey, signal) ==
    /\ providerCall.pc \in {"idle", "done"}
    /\ providerCalls < MaxProviderCalls
    /\ providerCalls' = providerCalls + 1
    /\ providerCall' = DispatchCall(kind, apiKey, signal)

\* The request in flight comes to an end at the provider or in the network
ProviderRespond(outcome) ==
    /\ providerCall.pc = "inFlight"
    /\ LET call == [providerCall EXCEPT !.fetches = SetLast(@, outcome)]
       IN providerCall' =
              IF outcome = "ok"
              THEN [call EXCEPT !.pc = "done",
                                !.result = Present(Fulfilled("json"))]
              ELSE Catch(call, outcome)
    /\ UNCHANGED providerCalls

\* delay(waitMs) is over: the delay is multiplied and operation() is called
ProviderWake ==
    /\ providerCall.pc = "sleeping"
    /\ providerCall' =
           Operation([providerCall EXCEPT
                         !.waitMs = @ * RetryConfig(providerCall.kind).backoffFactor])
    /\ UNCHANGED providerCalls

\* The caller's signal fires: a pending fetch rejects with AbortError, which
\* withRetry catches as any other error; delay() was not given the signal
ProviderAbort ==
    /\ providerCall.signal
    /\ ~providerCall.aborted
    /\ providerCall.pc \in {"inFlight", "sleeping"}
    /\ LET call == [providerCall EXCEPT !.aborted = TRUE]
       IN providerCall' =
              IF call.pc = "inFlight"
              THEN Catch([call EXCEPT !.fetches = SetLast(@, "AbortError")],
                         "AbortError")
              ELSE call
    /\ UNCHANGED providerCalls

-----------------------------------------------------------------------------
(* The KPI library: score/health, actions/suggest, simulator/simulate       *)
(* Amounts are whole currency units and ratios are thousandths; a product   *)
(* of an amount and a ratio is rounded down to the unit.                    *)

\* The longest list of actions of a simulation
MaxActions == 2

\* The value NaN of a ratio (0 / 0), outside the range of every ratio
NaN == 0 - 1000000000

\* clamp(numerator / denominator, min, max), in thousandths: x / 0 is
\* Infinity, -Infinity or NaN, and Math.max and Math.min keep NaN
ClampedRatio(numerator, denominator, min, max) ==
    IF denominator = 0
    THEN IF numerator = 0 THEN NaN ELSE IF numerator > 0 THEN max ELSE min
    ELSE ClampTo(Ratio(numerator, denominator), min, max)

\* amount * ratio
Mult(amount, thousandths) == (amount * thousandths) \div 1000

\* The goal of each ratio KPI: goals?.savingsRate, goals?.investmentRate,
\* goals?.debtToIncome and goals?.expenseCapRatio
KpiGoals(goals) ==
    IF goals = Absent
    THEN [savingsRate |-> Absent, investmentRate |-> Absent,
          debtToIncome |-> Absent, expenseRatio |-> Absent]
    ELSE [savingsRate |-> goals[1].savingsRate,
          investmentRate |-> goals[1].investmentRate,
          debtToIncome |-> goals[1].debtToIncome,
          expenseRatio |-> goals[1].expenseCapRatio]

\* The inputs of the computations: the totals of a month as one transaction
\* per type, with or without balances and goals
KpiTransactions(income, expenses, investments, debtPayments) ==
    <<MonthlyTransaction(income, "income"),
      MonthlyTransaction(0 - expenses, "expense"),
      MonthlyTransaction(investments, "investment"),
      MonthlyTransaction(debtPayments, "debt")>>

KpiBalances ==
    {Absent} \cup {Present([cash |-> 0, investments |-> 0, debt |-> debt]) :
                      debt \in {400, 3000}}

KpiGoalSets ==
    {Absent,
     Present([savingsRate |-> Present(100), investmentRate |-> Present(50),
              debtToIncome |-> Present(500), expenseCapRatio |-> Present(950)])}

KpiInputs ==
    {[transactions |-> KpiTransactions(income, expenses, investments, debtPayments),
      balances |-> balances, goals |-> goals] :
        income \in {0, 1000, 10000},
        expenses \in {0, 100, 500, 900, 1800, 9000},
        investments \in {0, 100, 1300},
        debtPayments \in {0, 50},
        balances \in KpiBalances,
        goals \in KpiGoalSets}

\* The insight that computeMonthlyMemory returns for an input
ComputedInsight(input) ==
    LET kpis == ComputeKpisOf(input.transactions, input.balances)
    IN [id |-> InsightId("u1", "2024-01"), userId |-> "u1", month |-> "2024-01",
        kpis |-> kpis, goals |-> KpiGoals(input.goals),
        story |-> CraftMonthlyStory("2024-01", kpis), createdAt |-> Clock(0)]

\* score/health ------------------------------------------------------------

\* KPI_WEIGHTS, in hundredths
KPI_WEIGHTS ==
    [cashFlow |-> 35, savingsRate |-> 25, debtToIncome |-> 20,
     investmentRate |-> 20]

\* A score before it is rounded: the fraction num / den, or NaN
Fraction(num, den) == [num |-> num, den |-> den]

ScoreCashFlowUnclamped(kpis) ==
    IF kpis.income <= 0
    THEN Fraction(1, 2)
    ELSE Fraction(kpis.cashFlow + kpis.income, 2 * kpis.income)

\* scoreCashFlow: clamp((cashFlow / income + 1) / 2, 0, 1)
ScoreCashFlow(kpis) ==
    IF kpis.income <= 0
    THEN Fraction(1, 2)
    ELSE Fraction(ClampTo(kpis.cashFlow + kpis.income, 0, 2 * kpis.income),
                  2 * kpis.income)

\* scoreSavings: clamp(savingsRate, 0, 1)
ScoreSavings(kpis) ==
    IF kpis.savingsRate = NaN
    THEN Fraction(NaN, 1)
    ELSE Fraction(ClampTo(kpis.savingsRate, 0, 1000), 1000)

\* scoreInvestment: clamp(investmentRate / 0.3, 0, 1)
ScoreInvestment(kpis) ==
    IF kpis.investmentRate = NaN
    THEN Fraction(NaN, 1)
    ELSE Fraction(ClampTo(kpis.investmentRate, 0, 300), 300)

\* scoreDebt
ScoreDebt(kpis) ==
    IF kpis.debtToIncome = NaN
    THEN Fraction(NaN, 1)
    ELSE IF kpis.debtToIncome <= 0
    THEN Fraction(1, 1)
    ELSE Fraction(ClampTo(1000 - kpis.debtToIncome, 0, 1000), 1000)

\* buildComponent: the score is Number(score.toFixed(3)), in thousandths
BuildComponent(key, score) ==
    [key |-> key,
     score |-> IF score.num = NaN THEN NaN ELSE ToFixed(score.num * 1000, score.den),
     weight |-> KPI_WEIGHTS[key]]

RECURSIVE WeightedSum(_)
\* The reduce over the components: the sum of score * weight, in units of
\* 0.00001, or NaN
WeightedSum(components) ==
    IF components = <<>>
    THEN 0
    ELSE LET rest == WeightedSum(Tail(components))
             head == Head(components)
         IN IF head.score = NaN \/ rest = NaN
            THEN NaN
            ELSE head.score * head.weight + rest

\* scoreFinancialHealth, without the messages and the notes
ScoreFinancialHealth(kpis) ==
    LET scoreMap == <<[key |-> "cashFlow", score |-> ScoreCashFlow(kpis)],
                      [key |-> "savingsRate", score |-> ScoreSavings(kpis)],
                      [key |-> "debtToIncome", score |-> ScoreDebt(kpis)],
                      [key |-> "investmentRate", score |-> ScoreInvestment(kpis)]>>
        components == [i \in 1..Len(scoreMap) |->
                          BuildComponent(scoreMap[i].key, scoreMap[i].score)]
        aggregate == WeightedSum(components)
    IN [total |-> IF aggregate = NaN THEN NaN ELSE ToFixed(aggregate, 100),
        components |-> components]

\* actions/suggest ---------------------------------------------------------

\* hasAction
HasAction(actions, id) == \E i \in 1..Len(actions) : actions[i] = id

\* One rule of suggestActions: push the action when its trigger holds and
\* the list does not hold it yet
Rule(actions, trigger, id) ==
    IF trigger /\ ~HasAction(actions, id) THEN Append(actions, id) ELSE actions

\* health.components.find((component) => component.key === key)
FindComponent(health, key) ==
    LET found == {i \in 1..Len(health.components) : health.components[i].key = key}
    IN IF found = {}
       THEN Absent
       ELSE Present(health.components[CHOOSE i \in found : \A j \in found : i <= j])

SuggestActionsInclusive(insight, health) ==
    LET kpis == insight.kpis
        goals == insight.goals
        cashFlowComponent == FindComponent(health, "cashFlow")
        savings == Rule(<<>>, kpis.savingsRate <= OrElse(goals.savingsRate, 200),
                        "improve-savings")
        expenses == Rule(savings, kpis.expenseRatio > OrElse(goals.expenseRatio, 500),
                         "optimize-expenses")
        debt == Rule(expenses, kpis.debtToIncome > OrElse(goals.debtToIncome, 350),
                     "accelerate-debt")
        investments == Rule(debt,
                            kpis.investmentRate < OrElse(goals.investmentRate, 150),
                            "boost-investments")
        income == Rule(investments,
                       /\ kpis.income > 0
                       /\ cashFlowComponent # Absent
                       /\ cashFlowComponent[1].score < 500,
                       "grow-income")
    IN IF income = <<>> THEN <<"stay-the-course">> ELSE income

\* suggestActions: the ids of the actions it returns, in order
SuggestActions(insight, health) ==
    LET kpis == insight.kpis
        goals == insight.goals
        cashFlowComponent == FindComponent(health, "cashFlow")
        savings == Rule(<<>>, kpis.savingsRate < OrElse(goals.savingsRate, 200),
                        "improve-savings")
        expenses == Rule(savings, kpis.expenseRatio > OrElse(goals.expenseRatio, 500),
                         "optimize-expenses")
        debt == Rule(expenses, kpis.debtToIncome > OrElse(goals.debtToIncome, 350),
                     "accelerate-debt")
        investments == Rule(debt,
                            kpis.investmentRate < OrElse(goals.investmentRate, 150),
                            "boost-investments")
        income == Rule(investments,
                       /\ kpis.income > 0
                       /\ cashFlowComponent # Absent
                       /\ cashFlowComponent[1].score < 500,
                       "grow-income")
    IN IF income = <<>> THEN <<"stay-the-course">> ELSE income

\* simulator/simulate ------------------------------------------------------

\* What an adjust function leaves: the KPI values and the amount it returns
Adjusted(kpis, amount) == [kpis |-> kpis, amount |-> amount]

AdjustSavingsKeepingExpenses(kpis, delta) ==
    IF kpis.income <= 0
    THEN Adjusted(kpis, 0)
    ELSE LET newRate == ClampTo(kpis.savingsRate + delta, 0, 800)
             rateDelta == newRate - kpis.savingsRate
             change == Mult(kpis.income, rateDelta)
         IN Adjusted([kpis EXCEPT
                          !.savingsRate = newRate,
                          !.cashFlow = @ + change],
                     change)

\* adjustSavings
AdjustSavings(kpis, delta) ==
    IF kpis.income <= 0
    THEN Adjusted(kpis, 0)
    ELSE LET newRate == ClampTo(kpis.savingsRate + delta, 0, 800)
             rateDelta == newRate - kpis.savingsRate
             change == Mult(kpis.income, rateDelta)
             expenses == Max2(0, kpis.expenses - change)
         IN Adjusted([kpis EXCEPT
                          !.savingsRate = newRate,
                          !.expenses = expenses,
                          !.cashFlow = @ + change,
                          !.expenseRatio =
                              ClampedRatio(expenses, kpis.income, 0, 2000)],
                     change)

\* adjustExpenses
AdjustExpenses(kpis, percent) ==
    LET reduction == Mult(kpis.expenses, percent)
        expenses == Max2(0, kpis.expenses - reduction)
        moved == [kpis EXCEPT !.expenses = expenses, !.cashFlow = @ + reduction]
    IN Adjusted(IF kpis.income > 0
                THEN [moved EXCEPT
                         !.savingsRate =
                             ClampedRatio(kpis.income - expenses, kpis.income, 0, 1200),
                         !.expenseRatio =
                             ClampedRatio(expenses, kpis.income, 0, 1500)]
                ELSE moved,
                reduction)

\* adjustDebt (the KPI debtOutstanding is there after ensureDebtOutstanding)
AdjustDebt(kpis, percent) ==
    LET current == kpis.debtOutstanding
        reduction == Mult(current, percent)
        outstanding == Max2(0, current - reduction)
    IN Adjusted([kpis EXCEPT
                     !.debtOutstanding = outstanding,
                     !.debtToIncome =
                         IF kpis.income > 0
                         THEN ClampedRatio(outstanding, kpis.income, 0, 2000)
                         ELSE 0],
                reduction)

\* adjustInvestments
AdjustInvestments(kpis, delta) ==
    IF kpis.income <= 0
    THEN Adjusted(kpis, 0)
    ELSE LET additionalContribution == Mult(kpis.income, delta)
             investments == kpis.investments + additionalContribution
         IN Adjusted([kpis EXCEPT
                          !.investments = investments,
                          !.investmentRate =
                              ClampedRatio(investments, kpis.income, 0, 1200),
                          !.cashFlow = @ - additionalContribution],
                     additionalContribution)

\* adjustIncome
AdjustIncome(kpis, percent) ==
    LET increase == Mult(kpis.income, percent)
        income == kpis.income + increase
    IN Adjusted([kpis EXCEPT
                     !.income = income,
                     !.cashFlow = @ + increase,
                     !.expenseRatio = ClampedRatio(kpis.expenses, income, 0, 2000),
                     !.savingsRate =
                         ClampedRatio(income - kpis.expenses, income, 0, 1200),
                     !.investmentRate =
                         ClampedRatio(kpis.investments, income, 0, 1200),
                     !.debtToIncome =
                         IF income > 0
                         THEN ClampedRatio(kpis.debtOutstanding, income, 0, 2000)
                         ELSE @],
                increase)

RefreshDerivedIgnoringInvestments(kpis) ==
    LET flowed == [kpis EXCEPT
                      !.cashFlow = kpis.income - kpis.expenses - kpis.debtPayments]
    IN IF kpis.income > 0
       THEN [flowed EXCEPT
                !.savingsRate =
                    ClampedRatio(kpis.income - kpis.expenses, kpis.income, 0, 1200),
                !.investmentRate =
                    ClampedRatio(kpis.investments, kpis.income, 0, 1200),
                !.expenseRatio =
                    ClampedRatio(kpis.expenses, kpis.income, 0, 1500),
                !.debtToIncome =
                    ClampedRatio(kpis.debtOutstanding, kpis.income, 0, 2000)]
       ELSE flowed

\* refreshDerived
RefreshDerived(kpis) ==
    LET flowed == [kpis EXCEPT
                      !.cashFlow = kpis.income - kpis.expenses - kpis.investments
                                   - kpis.debtPayments]
    IN IF kpis.income > 0
       THEN [flowed EXCEPT
                !.savingsRate =
                    ClampedRatio(kpis.income - kpis.expenses, kpis.income, 0, 1200),
                !.investmentRate =
                    ClampedRatio(kpis.investments, kpis.income, 0, 1200),
                !.expenseRatio =
                    ClampedRatio(kpis.expenses, kpis.income, 0, 1500),
                !.debtToIncome =
                    ClampedRatio(kpis.debtOutstanding, kpis.income, 0, 2000)]
       ELSE flowed

\* ensureDebtOutstanding
EnsureDebtOutstanding(kpis) ==
    IF "debtOutstanding" \in DOMAIN kpis
    THEN kpis
    ELSE kpis @@ [debtOutstanding |-> Mult(kpis.income, kpis.debtToIncome)]

\* The ids an action may carry: the ids of suggestActions
ActionIds ==
    {"improve-savings", "optimize-expenses", "accelerate-debt",
     "boost-investments", "grow-income", "stay-the-course"}

\* One turn of the loop of simulateAdjustments: the switch on action.id
ApplyAction(kpis, id) ==
    CASE id = "improve-savings" -> AdjustSavings(kpis, 30)
      [] id = "optimize-expenses" -> AdjustExpenses(kpis, 50)
      [] id = "accelerate-debt" -> AdjustDebt(kpis, 50)
      [] id = "boost-investments" -> AdjustInvestments(kpis, 20)
      [] id = "grow-income" -> AdjustIncome(kpis, 30)
      [] OTHER -> Adjusted(kpis, 0)

RECURSIVE ApplyActions(_, _)
\* The loop over the actions: the KPI values and the Record adjustments
ApplyActions(run, actions) ==
    IF actions = <<>>
    THEN run
    ELSE LET adjusted == ApplyAction(run.kpis, Head(actions))
         IN ApplyActions([kpis |-> adjusted.kpis,
                          adjustments |-> (Head(actions) :> adjusted.amount)
                                          @@ run.adjustments],
                         Tail(actions))

\* simulateAdjustments
SimulateAdjustments(insight, actions) ==
    LET run == ApplyActions([kpis |-> EnsureDebtOutstanding(insight.kpis),
                             adjustments |-> <<>>],
                            actions)
        kpis == RefreshDerived(run.kpis)
    IN [projectedInsight |->
            [insight EXCEPT
                !.kpis = kpis,
                !.story = CraftMonthlyStory(insight.month \o " (projected)", kpis)],
        projectedHealth |-> ScoreFinancialHealth(kpis),
        adjustments |-> run.adjustments]

\* The lists of at most MaxActions actions
ActionLists ==
    UNION {[1..n -> ActionIds] : n \in 0..MaxActions}

\* The KPI sets that are scored: those of the computed insights, and sets a
\* client posts, with ratios below 0 and above 1
ScoredKpis ==
    {ComputedInsight(input).kpis : input \in KpiInputs}
    \cup {[ComputedInsight(input).kpis EXCEPT
              !.savingsRate = savingsRate,
              !.investmentRate = investmentRate,
              !.debtToIncome = debtToIncome] :
            input \in {i \in KpiInputs : i.goals = Absent /\ i.balances = Absent},
            savingsRate \in {0 - 200, 1700},
            investmentRate \in {0 - 50, 299, 450},
            debtToIncome \in {0 - 100, 999, 2500}}

EvaluationIdle == evaluation = [op |-> "none"]

\* The calls of the library: a function and its arguments
ScoreCall(kpis) == [op |-> "call", function |-> "scoreFinancialHealth", kpis |-> kpis]

SuggestCall(input) == [op |-> "call", function |-> "suggestActions", input |-> input]

SimulateCall(input, actions) ==
    [op |-> "call", function |-> "simulateAdjustments", input |-> input,
     actions |-> actions]

KpiCalls ==
    {ScoreCall(kpis) : kpis \in ScoredKpis}
    \cup {SuggestCall(input) : input \in KpiInputs}
    \cup {SimulateCall(input, actions) :
             input \in {i \in KpiInputs : i.goals = Absent},
             actions \in ActionLists}

Called(function) == evaluation.op = "call" /\ evaluation.function = function

\* scoreFinancialHealth returns for a KPI set
Score ==
    /\ Called("scoreFinancialHealth")
    /\ evaluation' = [op |-> "score", kpis |-> evaluation.kpis,
                      health |-> ScoreFinancialHealth(evaluation.kpis)]

\* suggestActions returns for a computed insight and its health, as in the
\* routes
Suggest ==
    /\ Called("suggestActions")
    /\ LET insight == ComputedInsight(evaluation.input)
           health == ScoreFinancialHealth(insight.kpis)
       IN evaluation' = [op |-> "suggest", insight |-> insight, health |-> health,
                         actions |-> SuggestActions(insight, health)]

\* simulateAdjustments returns for a computed insight and a list of actions
Simulate ==
    /\ Called("simulateAdjustments")
    /\ LET insight == ComputedInsight(evaluation.input)
       IN evaluation' = [op |-> "simulate", insight |-> insight,
                         actions |-> evaluation.actions,
                         baselineHealth |-> ScoreFinancialHealth(insight.kpis),
                         simulation |-> SimulateAdjustments(insight,
                                                            evaluation.actions)]

-----------------------------------------------------------------------------
(* POST /chat of src/api/v1/index.ts: the response, made after orchestrate *)
(* returned, from the insight store                                        *)

\* listInsights(user.userId).slice(-1)[0]: the last entry of the user, if any
LatestInsight(store, userId) ==
    LET listed == ListInsights(store, userId)
    IN IF listed = <<>> THEN Absent ELSE Present(listed[Len(listed)])

\* The actions of the payload: the ids of suggestActions for an insight of
\* the store, which has no goals
ActionPayload(insight) ==
    SuggestActions([id |-> insight.id, userId |-> insight.userId,
                    month |-> insight.month, kpis |-> insight.kpis,
                    goals |-> KpiGoals(Absent), story |-> insight.story,
                    createdAt |-> insight.createdAt],
                   ScoreFinancialHealth(insight.kpis))

\* router.post("/chat"): the response payload
Respond(q) ==
    /\ chats[q].pc = "respond"
    /\ LET latestInsight == LatestInsight(insightStore, chats[q].user.userId)
       IN chats' = [chats EXCEPT
             ![q].pc = "done",
             ![q].response =
                 Present([status |-> 200,
                          reply |-> chats[q].finalMessage,
                          kpis |-> IF latestInsight = Absent THEN Absent
                                   ELSE Present(latestInsight[1].kpis),
                          actions |-> IF latestInsight = Absent THEN Absent
                                      ELSE Present(ActionPayload(latestInsight[1])),
                          followup |-> Followup(chats[q].confidence)])]
    /\ UNCHANGED <<paymentIntents, database, persists>>

ChatStep(q) ==
    \/ ChatReceive(q)
    \/ Classify(q)
    \/ PlanStepTaken(q)
    \/ Respond(q)

-----------------------------------------------------------------------------
(* embedTexts of src/providers/embeddings-router.ts. A text is kept as its *)
(* runs of equal characters ([char, times]); an embedding as the text it   *)
(* was made of and the provider call that returned it.                     *)

\* Length of the short lists of texts of a call
MaxTexts == 3

DEFAULT_BATCH == 32

MAX_CHARS == 400

TextRun(char, times) == [char |-> char, times |-> times]

RECURSIVE TextLength(_)
TextLength(text) ==
    IF text = <<>> THEN 0 ELSE Head(text).times + TextLength(Tail(text))

\* String.prototype.trim()
TrimText(text) ==
    LET fromStart == IF text # <<>> /\ Head(text).char = " " THEN Tail(text) ELSE text
    IN IF fromStart # <<>> /\ fromStart[Len(fromStart)].char = " "
       THEN SubSeq(fromStart, 1, Len(fromStart) - 1)
       ELSE fromStart

\* String.prototype.slice(0, end)
RECURSIVE SliceText(_, _)
SliceText(text, end) ==
    IF text = <<>> \/ end <= 0 THEN <<>>
    ELSE IF Head(text).times >= end THEN <<TextRun(Head(text).char, end)>>
    ELSE <<Head(text)>> \o SliceText(Tail(text), end - Head(text).times)

SanitizeText(text) ==
    LET trimmed == TrimText(text)
    IN IF TextLength(trimmed) <= MAX_CHARS THEN trimmed ELSE SliceText(trimmed, MAX_CHARS)

\* A deduplication that keeps every input
DeduplicateNothing(inputs) ==
    [unique |-> inputs,
     reverseMap |-> [uniqueIndex \in 1..Len(inputs) |-> <<uniqueIndex>>]]

\* deduplicate: the first occurrences in input order, and for each of them
\* the indexes of the inputs equal to it
Deduplicate(inputs) ==
    LET first == {idx \in 1..Len(inputs) :
                     \A earlier \in 1..(idx - 1) : inputs[earlier] # inputs[idx]}
        position(idx) == Cardinality({other \in first : other <= idx})
        unique == [uniqueIndex \in 1..Cardinality(first) |->
                      inputs[CHOOSE idx \in first : position(idx) = uniqueIndex]]
    IN [unique |-> unique,
        reverseMap |-> [uniqueIndex \in 1..Len(unique) |->
            SelectSeq([idx \in 1..Len(inputs) |-> idx],
                      LAMBDA idx : inputs[idx] = unique[uniqueIndex])]]

\* What the provider answers for one input of its call-th request
ProviderEmbedding(text, call) == [text |-> text, call |-> call]

\* The texts of the calls: plain, padded, of 400 characters and more, with a
\* blank at the cut, and blank
Texts ==
    {<<TextRun("a", 1)>>,
     <<TextRun(" ", 2), TextRun("a", 1), TextRun(" ", 1)>>,
     <<TextRun("a", 400)>>,
     <<TextRun("a", 400), TextRun("b", 1)>>,
     <<TextRun(" ", 1), TextRun("a", 401)>>,
     <<TextRun("a", 399), TextRun(" ", 1), TextRun("b", 5)>>,
     <<TextRun(" ", 3)>>}

\* n texts that differ from each other
DistinctTexts(n) == [i \in 1..n |-> <<TextRun("c", i)>>]

\* The lists of texts: the short ones, and lists that need more than one
\* request of 32
TextLists ==
    UNION {[1..n -> Texts] : n \in 0..MaxTexts}
      \cup {DistinctTexts(DEFAULT_BATCH + 1),
            DistinctTexts(2 * DEFAULT_BATCH),
            DistinctTexts(2 * DEFAULT_BATCH + 1),
            DistinctTexts(DEFAULT_BATCH + 1) \o DistinctTexts(DEFAULT_BATCH + 1)}

\* options.batchSize (z.number().int().min(1).max(64).optional())
BatchSizes == {Absent, Present(1), Present(2)}

EmbedIdle == embedCall = [pc |-> "idle"]

EmbedCalls ==
    {[pc |-> "call", texts |-> texts, batchSize |-> batchSize] :
        texts \in TextLists, batchSize \in BatchSizes}

\* The end of embedTexts: results put back in input order
EmbedReturns(call, results) ==
    LET ordered == [originalIndex \in 1..Len(call.texts) |->
            results[CHOOSE uniqueIndex \in 1..Len(call.unique) :
                       \E k \in DOMAIN call.reverseMap[uniqueIndex] :
                           call.reverseMap[uniqueIndex][k] = originalIndex]]
    IN [call EXCEPT !.pc = "returned", !.results = results, !.embeddings = ordered]

\* embedTexts up to its first await: no texts, no request; otherwise the
\* texts are sanitized and deduplicated and the first batch is sent
EmbedTexts ==
    /\ embedCall.pc = "call"
    /\ LET texts == embedCall.texts
           sanitized == [i \in 1..Len(texts) |-> SanitizeText(texts[i])]
           deduplicated == Deduplicate(sanitized)
           batchSize == OrElse(embedCall.batchSize, DEFAULT_BATCH)
           started == [pc |-> "batch", texts |-> texts,
                       batchSize |-> embedCall.batchSize,
                       unique |-> deduplicated.unique,
                       reverseMap |-> deduplicated.reverseMap,
                       i |-> 0, results |-> <<>>, batches |-> <<>>,
                       embeddings |-> <<>>]
       IN embedCall' =
             IF texts = <<>>
             THEN [started EXCEPT !.pc = "returned"]
             ELSE [started EXCEPT
                      !.batches = <<Slice(deduplicated.unique, 0, batchSize)>>]

\* The answer to the request under way: a rejection ends embedTexts; the
\* embeddings are stored at i + idx, and the next batch is sent or the
\* ordered embeddings are returned
EmbedRespond(outcome) ==
    /\ embedCall.pc = "batch"
    /\ LET batchSize == OrElse(embedCall.batchSize, DEFAULT_BATCH)
           call == Len(embedCall.batches)
           batch == embedCall.batches[call]
           results == embedCall.results \o
                      [idx \in 1..Len(batch) |-> ProviderEmbedding(batch[idx], call)]
           i == embedCall.i + batchSize
       IN embedCall' =
             IF outcome = "rejected"
             THEN [embedCall EXCEPT !.pc = "rejected"]
             ELSE IF i < Len(embedCall.unique)
             THEN [embedCall EXCEPT
                      !.i = i, !.results = results,
                      !.batches = Append(@, Slice(embedCall.unique, i, i + batchSize))]
             ELSE EmbedReturns([embedCall EXCEPT !.i = i], results)

-----------------------------------------------------------------------------
(* The objects of simulateAdjustments. An insight of the store is an       *)
(* object that refers to its KPI set, which refers to one object per KPI;  *)
(* an object is known by its address, its place in the sequence objects.   *)

\* The most simulations of one stored insight
MaxSimulations == 2

KeysOf(kpis) == SelectSeq(KpiKeys, LAMBDA key : key \in DOMAIN kpis)

PlaceOf(key, keys) == CHOOSE i \in 1..Len(keys) : keys[i] = key

\* A KPI set { key: {value}, ... } made of new objects: the objects, and the
\* address of the set
NewKpiSet(objects, kpis) ==
    LET keys == KeysOf(kpis)
        values == [i \in 1..Len(keys) |-> [value |-> kpis[keys[i]]]]
        entries == [key \in DOMAIN kpis |-> Len(objects) + PlaceOf(key, keys)]
    IN [objects |-> (objects \o values) \o <<[entries |-> entries]>>,
        address |-> Len(objects) + Len(keys) + 1]

\* An insight made of new objects
NewInsight(objects, insight) ==
    LET set == NewKpiSet(objects, insight.kpis)
    IN [objects |-> Append(set.objects, [insight EXCEPT !.kpis = set.address]),
        address |-> Len(set.objects) + 1]

\* The KPI set an address refers to, with its keys and values
KpisAt(objects, address) ==
    [key \in DOMAIN objects[address].entries |->
        objects[objects[address].entries[key]].value]

\* The insight an address refers to, with the keys and values of its KPIs
InsightAt(objects, address) ==
    [objects[address] EXCEPT !.kpis = KpisAt(objects, @)]

\* { ...entry }: a new object with the fields of the entry, its KPI set
\* being the entry's
SpreadInsight(objects, address) ==
    [objects |-> Append(objects, objects[address]),
     address |-> Len(objects) + 1]

\* listInsights(userId): a new object per entry of the user
RECURSIVE ListInsightObjects(_, _, _)
ListInsightObjects(objects, store, userId) ==
    IF store = <<>>
    THEN [objects |-> objects, addresses |-> <<>>]
    ELSE IF objects[Head(store)].userId # userId
    THEN ListInsightObjects(objects, Tail(store), userId)
    ELSE LET copy == SpreadInsight(objects, Head(store))
             rest == ListInsightObjects(copy.objects, Tail(store), userId)
         IN [objects |-> rest.objects,
             addresses |-> <<copy.address>> \o rest.addresses]

\* A clone that copies the insight and shares its KPI set
CloneInsightShallow(objects, address) == SpreadInsight(objects, address)

\* cloneInsight: a new insight, a new KPI set and a new object per KPI
CloneInsight(objects, address) ==
    LET set == NewKpiSet(objects, KpisAt(objects, objects[address].kpis))
    IN [objects |-> Append(set.objects,
                           [objects[address] EXCEPT !.kpis = set.address]),
        address |-> Len(set.objects) + 1]

\* The assignments of simulateAdjustments to projected.kpis: the value of
\* each KPI of the set, and the key debtOutstanding where the set lacks it
AssignKpis(objects, set, kpis) ==
    LET entries == objects[set].entries
        added == SelectSeq(KpiKeys,
                           LAMBDA key : key \in DOMAIN kpis \ DOMAIN entries)
        KeyAt(address) == CHOOSE key \in DOMAIN entries : entries[key] = address
        assigned ==
            [address \in DOMAIN objects |->
                IF \E key \in DOMAIN entries : entries[key] = address
                THEN [value |-> kpis[KeyAt(address)]]
                ELSE objects[address]]
        values == [i \in 1..Len(added) |-> [value |-> kpis[added[i]]]]
        extended ==
            [key \in DOMAIN kpis |->
                IF key \in DOMAIN entries
                THEN entries[key]
                ELSE Len(objects) + PlaceOf(key, added)]
    IN [(assigned \o values) EXCEPT ![set] = [entries |-> extended]]

\* simulateAdjustments on the insight at an address: the objects after it,
\* and what it returns
SimulateObjects(objects, address, actions) ==
    LET projected == CloneInsight(objects, address)
        simulation == SimulateAdjustments(InsightAt(projected.objects,
                                                    projected.address),
                                          actions)
        assigned == AssignKpis(projected.objects,
                               projected.objects[projected.address].kpis,
                               simulation.projectedInsight.kpis)
        after == [assigned EXCEPT
                     ![projected.address].story = simulation.projectedInsight.story]
    IN [objects |-> after,
        simulation |->
            [projectedInsight |-> InsightAt(after, projected.address),
             projectedHealth |->
                 ScoreFinancialHealth(KpisAt(after, after[projected.address].kpis)),
             adjustments |-> simulation.adjustments]]

HeapIdle == heap = [pc |-> "idle"]

\* The insights that are simulated: those computeMonthlyMemory stores and,
\* as a caller of the library may pass them, insights without the key
\* debtOutstanding
SimulatedInsights ==
    LET computed == {ComputedInsight(input) :
                        input \in {i \in KpiInputs :
                                      /\ i.goals = Absent
                                      /\ Sum(i.transactions, "debt") = 0
                                      /\ Sum(i.transactions, "investment") = 100
                                      /\ Sum(i.transactions, "expense")
                                             \in {500, 1800}
                                      /\ i.balances \in
                                             {Absent,
                                              Present([cash |-> 0,
                                                       investments |-> 0,
                                                       debt |-> 3000])}}}
        Without(kpis, key) == [k \in DOMAIN kpis \ {key} |-> kpis[k]]
    IN computed
       \cup {[insight EXCEPT !.kpis = Without(@, "debtOutstanding")] :
                insight \in {i \in computed : i.kpis.debtOutstanding = 0}}

\* The process with one insight in insightStore, about to simulate actions
HeapWith(insight, actions) ==
    LET stored == NewInsight(<<>>, [insight EXCEPT !.story = Trim(@)])
    IN [pc |-> "stored", objects |-> stored.objects,
        insightStore |-> <<stored.address>>, stored |-> stored,
        actions |-> actions, simulations |-> <<>>]

Heaps ==
    {HeapWith(insight, actions) :
        insight \in SimulatedInsights, actions \in ActionLists}

\* POST /simulate, from listInsights on: simulateAdjustments on the entry
\* that listInsights returns
SimulateStored ==
    /\ heap.pc = "stored"
    /\ Len(heap.simulations) < MaxSimulations
    /\ LET listed == ListInsightObjects(heap.objects, heap.insightStore, "u1")
           insight == listed.addresses[1]
           run == SimulateObjects(listed.objects, insight, heap.actions)
       IN heap' = [heap EXCEPT
                      !.objects = run.objects,
                      !.simulations =
                          Append(@, [input |-> InsightAt(listed.objects, insight),
                                     after |-> InsightAt(run.objects, insight),
                                     simulation |-> run.simulation])]

-----------------------------------------------------------------------------
(* Specifications                                                          *)

\* Nothing has used the API of the memory, the limiter or the providers.
ApiIdle ==
    /\ MemoryIdle /\ AuthIdle /\ RateIdle /\ ProviderIdle /\ EvaluationIdle
    /\ EmbedIdle /\ HeapIdle

ChatIdle ==
    /\ chats = [q \in ChatIds |-> IdleChat]
    /\ persists = [p \in PersistIds |-> IdlePersist]

\* The MCP server has a database (createMcpServer requires one).
Init == McpInit /\ database = TRUE /\ ChatIdle /\ ApiIdle

\* Handlers run concurrently: any invocation may take its next step.
Next ==
    /\ \E c \in 1..MaxConcurrent : Step(c)
    /\ UNCHANGED <<chatVars, apiVars>>

Spec == Init /\ [][Next]_vars

\* Sequential use: an invocation starts only when no other is in flight.
SeqNext ==
    /\ \E c \in CallIds :
          /\ \A d \in CallIds \ {c} : ~InFlight(d)
          /\ Step(c)
    /\ UNCHANGED <<chatVars, apiVars>>

SeqSpec == Init /\ [][SeqNext]_vars

\* Sequential use of one key by the users of two tenants
ScopeNext ==
    /\ \E c \in CallIds :
          /\ \A d \in CallIds \ {c} : ~InFlight(d)
          /\ \/ InvokeFrom(c, ScopeSlugs, ScopeInputs)
             \/ (calls[c].pc # "idle" /\ Step(c))
    /\ UNCHANGED <<chatVars, apiVars>>

ScopeSpec == Init /\ [][ScopeNext]_vars

\* Concurrent first use: the invocations of the users of two tenants, each
\* with the same valid input, take their steps in any order
FirstUseNext ==
    /\ \E c \in 1..MaxConcurrent :
          \/ InvokeFrom(c, ScopeSlugs, {ToolInput("k1", Absent, NumberValue(10))})
          \/ (calls[c].pc # "idle" /\ Step(c))
    /\ UNCHANGED <<chatVars, apiVars>>

FirstUseSpec == Init /\ [][FirstUseNext]_vars

\* The API process runs with or without a database.
ChatInit == McpInit /\ database \in BOOLEAN /\ ChatIdle /\ ApiIdle

\* Chat requests, one after the other
ChatNext ==
    /\ \E q \in ChatIds :
          /\ \A o \in ChatIds \ {q} : ~ChatInFlight(o)
          /\ \/ ChatStep(q)
             \/ PersistInsert(q)
             \/ PersistInsertRejects(q)
             \/ PersistSelect(q)
    /\ UNCHANGED <<mcpVars, apiVars>>

ChatSpec == ChatInit /\ [][ChatNext]_vars

\* Plans handed to executePlan: the four of buildPlan, and plans whose
\* dependencies are unmet at the first or at a later step, with two tool
\* steps and no synthesis, with a tool step without extraction, without steps,
\* and with an LLM action or a tool step that executePlan does not support
Plans ==
    {BuildPlan(intent) : intent \in IntentNames} \cup
    {<<PlanStep("persist-transaction", "tool", "", "transactions.create",
                {"extract-transaction"}),
       PlanStep("respond-user", "synthesis", "", "", {})>>,
     <<PlanStep("extract-transaction", "llm", "extract-transaction", "", {}),
       PlanStep("respond-user", "synthesis", "", "", {"persist-transaction"}),
       PlanStep("persist-transaction", "tool", "", "transactions.create", {})>>,
     <<PlanStep("extract-transaction", "llm", "extract-transaction", "", {}),
       PlanStep("persist-transaction", "tool", "", "transactions.create",
                {"extract-transaction"}),
       PlanStep("persist-again", "tool", "", "transactions.create",
                {"persist-transaction"})>>,
     <<PlanStep("persist-transaction", "tool", "", "transactions.create", {}),
       PlanStep("respond-user", "synthesis", "", "", {"persist-transaction"})>>,
     <<>>,
     <<PlanStep("translate", "llm", "translate", "", {}),
       PlanStep("respond-user", "synthesis", "", "", {})>>,
     <<PlanStep("notify", "tool", "", "", {}),
       PlanStep("respond-user", "synthesis", "", "", {})>>}

\* executePlan(plan, request, intent, dependencies) at its first step
StartedPlan(plan, intent, tools, vectorStore) ==
    [IdleChat EXCEPT !.pc = IF plan = <<>> THEN "fallback" ELSE "step",
                     !.intent = intent,
                     !.confidence = LowConfidenceThreshold,
                     !.plan = plan,
                     !.step = 1,
                     !.tools = tools,
                     !.vectorStore = vectorStore]

\* One call of executePlan, with any plan, intent, tool registry and vector
\* store
PlanInit ==
    /\ McpInit /\ database \in BOOLEAN /\ ApiIdle
    /\ persists = [p \in PersistIds |-> IdlePersist]
    /\ \E plan \in Plans, intent \in IntentNames, tools \in BOOLEAN,
          vectorStore \in VectorStores :
          chats = [q \in ChatIds |->
                      IF q = 1 THEN StartedPlan(plan, intent, tools, vectorStore)
                      ELSE IdleChat]

PlanNext ==
    /\ \/ PlanStepTaken(1)
       \/ PersistInsert(1)
       \/ PersistInsertRejects(1)
       \/ PersistSelect(1)
    /\ UNCHANGED <<mcpVars, apiVars>>

PlanSpec == PlanInit /\ [][PlanNext]_vars

\* A chat request of u1 whose orchestrate has returned, while the months of
\* two users are computed and recomputed in any order
LatestInit ==
    /\ McpInit /\ database = TRUE /\ ApiIdle
    /\ persists = [p \in PersistIds |-> IdlePersist]
    /\ \E user \in ChatUsers, confidence \in Confidences :
          chats = [q \in ChatIds |->
                      IF q = 1
                      THEN [IdleChat EXCEPT !.pc = "respond", !.user = user,
                                            !.intent = "general_question",
                                            !.confidence = confidence,
                                            !.finalMessage =
                                                SynthesisMessage("general_question")]
                      ELSE IdleChat]

LatestNext ==
    \/ /\ \E userId \in MemoryUsers, month \in MonthStrings,
              transactions \in TransactionLists :
              ComputeMonthlyMemory(userId, month, transactions)
       /\ UNCHANGED <<mcpVars, paymentIntents, chatVars, authVars, rateVars,
                      providerVars, kpiVars, embedVars, heapVars>>
    \/ /\ Respond(1)
       /\ UNCHANGED <<mcpVars, apiVars>>

LatestSpec == LatestInit /\ [][LatestNext]_vars

\* Concurrent invocations of the chat tool transactions.create, with a
\* database whose statements complete
PersistNext ==
    /\ \E p \in PersistIds :
          \/ InvokePersist(p)
          \/ PersistInsert(p)
          \/ PersistSelect(p)
    /\ UNCHANGED <<mcpVars, apiVars>>

PersistSpec == ChatInit /\ [][PersistNext]_vars

\* The monthly memory: computations and searches of any users, in any order
MemoryNext ==
    /\ \/ \E userId \in MemoryUsers, month \in PayloadMonths,
             transactions \in TransactionLists :
             ComputeMonthlyMemory(userId, month, transactions)
       \/ \E userId \in MemoryUsers, queryEmbedding \in QueryEmbeddings,
             options \in SearchOptions :
             Search(userId, queryEmbedding, options)
    /\ UNCHANGED <<mcpVars, paymentIntents, chatVars, authVars, rateVars,
                   providerVars, kpiVars, embedVars, heapVars>>

MemorySpec == Init /\ [][MemoryNext]_vars

\* The API process with a database that holds the customers of the API
ApiInit(customerTables) ==
    /\ tenants = {}
    /\ customers \in customerTables
    /\ idempotencyKeys = {}
    /\ paymentIntents = {}
    /\ calls = [c \in CallIds |-> IdleCall]
    /\ ChatIdle
    /\ ApiIdle

\* Benchmarks: insight computations, opt-in changes and GET /benchmarks by
\* the customers, in any order
BenchmarksNext ==
    /\ \/ \E customerId \in ApiCustomerIds, month \in MonthStrings :
             /\ ComputeMonthlyMemory(customerId, month,
                                     CHOOSE list \in TransactionLists : Length(list) = 1)
             /\ UNCHANGED customers
       \/ \E customerId \in ApiCustomerIds, allow \in BOOLEAN :
             SetOptIn(customerId, allow)
       \/ \E customerId \in ApiCustomerIds : Benchmarks(customerId)
    /\ UNCHANGED <<tenants, idempotencyKeys, calls, paymentIntents, chatVars,
                   authVars, rateVars,
                   providerVars, kpiVars, embedVars, heapVars>>

BenchmarksInit == ApiInit(ApiCustomerTables) /\ database = TRUE

BenchmarksSpec == BenchmarksInit /\ [][BenchmarksNext]_vars

\* Preferences: the customers post preferences and ask for benchmarks, in
\* any order
PreferencesNext ==
    /\ \/ \E customerId \in ApiCustomerIds, payload \in PreferencePayloads :
             PostPreferences(customerId, payload)
       \/ \E customerId \in ApiCustomerIds : Benchmarks(customerId)
    /\ UNCHANGED <<tenants, idempotencyKeys, calls, paymentIntents, chatVars,
                   authVars, rateVars,
                   providerVars, kpiVars, embedVars, heapVars>>

PreferencesSpec == BenchmarksInit /\ [][PreferencesNext]_vars

\* Authentication: the process runs with or without a database; the table
\* customers holds the customers of the API
AuthInit == ApiInit({{ApiCustomer(id, FALSE, FALSE) : id \in ApiCustomerIds}})
            /\ database \in BOOLEAN

\* Requests authenticate one after the other
AuthNext ==
    /\ \/ \E token \in {Absent} \cup {Present(t) : t \in JwtTokens},
             now \in AuthInstants :
             RequireUser(token, now)
       \/ RequireUserFetch
    /\ UNCHANGED <<mcpVars, paymentIntents, chatVars, memoryVars, rateVars,
                   providerVars, kpiVars, embedVars, heapVars>>

AuthSpec == AuthInit /\ [][AuthNext]_vars

\* The limiter: requests of one client to one route, from two addresses, as
\* time passes
RateNext ==
    /\ \/ \E options \in RateLimitedRoutes, address \in ClientAddresses :
             EnforceRateLimit(options, address)
       \/ \E instant \in ClockInstants : Tick(instant)
    /\ UNCHANGED <<mcpVars, paymentIntents, chatVars, authVars,
                   insightStore, embeddings, computations,
                   providerVars, kpiVars, embedVars, heapVars>>

RateSpec == Init /\ [][RateNext]_vars

\* Uploads and computations of the users, in any order
UploadNext ==
    /\ \/ \E userId \in MemoryUsers, csv \in UploadedCsvs :
             UploadCsv(userId, "2024-01", csv)
       \/ \E userId \in MemoryUsers, transactions \in TransactionLists :
             ComputeMonthlyMemory(userId, "2024-02", transactions)
    /\ UNCHANGED <<mcpVars, paymentIntents, chatVars, authVars, rateVars,
                   providerVars, kpiVars, embedVars, heapVars>>

UploadSpec == Init /\ [][UploadNext]_vars

\* Provider calls, one after the other, with what the provider, the network,
\* the timers and the callers' signals can do
ProviderNext ==
    /\ \/ \E kind \in ProviderKinds, apiKey \in BOOLEAN, signal \in BOOLEAN :
             ProviderStart(kind, apiKey, signal)
       \/ \E outcome \in FetchOutcomes : ProviderRespond(outcome)
       \/ ProviderWake
       \/ ProviderAbort
    /\ UNCHANGED <<mcpVars, paymentIntents, chatVars, memoryVars, authVars,
                   rateVars, kpiVars, embedVars, heapVars>>

ProviderSpec == Init /\ [][ProviderNext]_vars

\* One call of the KPI library, on a computed insight or a posted KPI set
KpiInit ==
    /\ McpInit /\ database = TRUE /\ ChatIdle
    /\ MemoryIdle /\ AuthIdle /\ RateIdle /\ ProviderIdle /\ EmbedIdle
    /\ HeapIdle
    /\ evaluation \in KpiCalls

KpiNext ==
    /\ \/ Score
       \/ Suggest
       \/ Simulate
    /\ UNCHANGED <<mcpVars, paymentIntents, chatVars, memoryVars, authVars,
                   rateVars, providerVars, embedVars, heapVars>>

KpiSpec == KpiInit /\ [][KpiNext]_vars

\* One call of embedTexts
EmbedInit ==
    /\ McpInit /\ database = TRUE /\ ChatIdle
    /\ MemoryIdle /\ AuthIdle /\ RateIdle /\ ProviderIdle /\ EvaluationIdle
    /\ HeapIdle
    /\ embedCall \in EmbedCalls

EmbedNext ==
    /\ \/ EmbedTexts
       \/ \E outcome \in {"fulfilled", "rejected"} : EmbedRespond(outcome)
    /\ UNCHANGED <<mcpVars, paymentIntents, chatVars, memoryVars, authVars,
                   rateVars, providerVars, kpiVars, heapVars>>

EmbedSpec == EmbedInit /\ [][EmbedNext]_vars

\* The simulator alone, with an insight in the store
HeapInit ==
    /\ McpInit /\ database = TRUE /\ ChatIdle
    /\ MemoryIdle /\ AuthIdle /\ RateIdle /\ ProviderIdle /\ EvaluationIdle
    /\ EmbedIdle
    /\ heap \in Heaps

HeapNext ==
    /\ SimulateStored
    /\ UNCHANGED <<mcpVars, paymentIntents, chatVars, memoryVars, authVars,
                   rateVars, providerVars, kpiVars, embedVars>>

HeapSpec == HeapInit /\ [][HeapNext]_vars
-----------------------------------------------------------------------------
(* Observations used by the properties                                     *)

Done(c) == calls[c].pc = "done"

Result(c) == calls[c].result[1]

Succeeded(c) == Done(c) /\ Result(c).status = "success"

\* The invocation threw inside the executor (the resolver failed)
ResolverFailed(c) ==
    Done(c) /\ Result(c).status = "error" /\ calls[c].executions = 1

\* Two invocations of the same tenant with the same idempotencyKey
SameKey(c, d) ==
    /\ calls[c].slug = calls[d].slug
    /\ calls[c].input.idempotencyKey = calls[d].input.idempotencyKey

\* ... and an identical request payload
SameRequest(c, d) == SameKey(c, d) /\ CallHash(c) = CallHash(d)

Started(c) == calls[c].pc # "idle"

RecordOf(c) == {r \in idempotencyKeys : r.id = calls[c].entryId}

-----------------------------------------------------------------------------
(* C1: sequential invocations with one idempotencyKey and one payload      *)

\* C1: when transactions.create is invoked sequentially, the invocations of
\* one tenant with the same idempotencyKey and an identical payload insert
\* one payment_intents row between them; all that succeed return the id of
\* that row, the first of them with replayed = FALSE and every later one
\* with replayed = TRUE.
C1_SequentialReplay ==
    \A c \in CallIds :
        Succeeded(c) =>
            LET same == {d \in CallIds : Started(d) /\ SameRequest(c, d)}
                inserting == {d \in same : calls[d].insertedId # 0}
                earlier == {d \in same : d < c /\ Succeeded(d)}
            IN /\ Cardinality(inserting) = 1
               /\ \E r \in paymentIntents :
                     /\ r.id = Result(c).transactionId
                     /\ \A d \in inserting : calls[d].insertedId = r.id
               /\ \A d \in same : Succeeded(d) =>
                     Result(d).transactionId = Result(c).transactionId
               /\ Result(c).replayed = (earlier # {})

\* Three invocations with the same key and payload have all succeeded, the
\* last two as replays.
C1_Witness ==
    /\ \A c \in CallIds : Succeeded(c) /\ SameRequest(1, c)
    /\ ~Result(1).replayed
    /\ \A c \in CallIds \ {1} : Result(c).replayed

-----------------------------------------------------------------------------
(* C2: concurrent invocations with one idempotencyKey and one payload      *)

\* C2: two concurrent invocations with the same (tenantId, idempotencyKey)
\* and an identical payload are linearisable: the insert takes effect at most
\* once and, when both return a transaction, it is the same transaction.
C2_Linearisable ==
    \A c, d \in CallIds :
        (c # d /\ Done(c) /\ Done(d) /\ SameRequest(c, d)) =>
            /\ ~(calls[c].insertedId # 0 /\ calls[d].insertedId # 0)
            /\ (Succeeded(c) /\ Succeeded(d)) =>
                  Result(c).transactionId = Result(d).transactionId

-----------------------------------------------------------------------------
(* C3: a different payload under an existing idempotencyKey                *)

\* C3: when the upsert of an invocation finds a record for (tenantId, key)
\* whose requestHash differs from the hash of the new payload, the
\* invocation ends with the error IDEMPOTENCY_CONFLICT, the executor has not
\* run, no payment_intents row is inserted, and the record keeps its
\* requestHash and its responsePayload.
C3_Step(c) ==
    LET existing == IdempotencyRows(calls[c].tenantId, calls[c].input.idempotencyKey)
    IN (/\ calls[c].pc = "upsert"
        /\ calls'[c].pc # "upsert"
        /\ \E r \in existing : r.requestHash # CallHash(c))
       =>
       (/\ calls'[c].pc = "done"
        /\ calls'[c].result[1].status = "error"
        /\ calls'[c].result[1].code = "IDEMPOTENCY_CONFLICT"
        /\ calls'[c].executions = 0
        /\ calls'[c].insertedId = 0
        /\ paymentIntents' = paymentIntents
        /\ \A r \in existing :
              \E q \in idempotencyKeys' :
                  /\ q.id = r.id
                  /\ q.requestHash = r.requestHash
                  /\ q.responsePayload = r.responsePayload)

\* C3, as a property of every step of every invocation
C3_ConflictRejected == [][\A c \in CallIds : C3_Step(c)]_vars

\* An invocation was rejected with IDEMPOTENCY_CONFLICT against a record
\* that holds the response of the original request.
C3_Witness ==
    \E c \in CallIds :
        /\ Done(c)
        /\ Result(c).code = "IDEMPOTENCY_CONFLICT"
        /\ \E r \in RecordOf(c) :
              /\ r.requestHash # CallHash(c)
              /\ r.responsePayload # Absent

-----------------------------------------------------------------------------
(* C4: lockedAt and responsePayload of an idempotency record               *)

\* C4: in every reachable state no idempotency record has both lockedAt set
\* and a responsePayload.
C4_LockedOrCompleted ==
    \A r \in idempotencyKeys : ~(r.lockedAt # 0 /\ r.responsePayload # Absent)

-----------------------------------------------------------------------------
(* C5: the record after a failed resolver                                  *)

\* The last invocation that started, when nothing has started after it
LastStarted(c) == Started(c) /\ \A d \in CallIds : d > c => ~Started(d)

\* C5: when the resolver of an invocation has failed, the caller has an
\* error result and the idempotency record of (tenantId, key) has lockedAt
\* cleared and no responsePayload.
C5_FailureClearsLock ==
    \A c \in CallIds :
        (ResolverFailed(c) /\ LastStarted(c)) =>
            /\ Result(c).status = "error"
            /\ \A r \in RecordOf(c) : r.lockedAt = 0 /\ r.responsePayload = Absent

-----------------------------------------------------------------------------
(* C6: retry after a failed resolver                                       *)

PriorFailure(d) == \E c \in CallIds : c < d /\ SameRequest(c, d) /\ ResolverFailed(c)

PriorSuccess(d) == \E c \in CallIds : c < d /\ SameRequest(c, d) /\ Succeeded(c)

\* C6: sequentially, an invocation that follows a failed resolver run of the
\* same (tenantId, key) and payload, with no successful run in between, is
\* neither rejected nor replayed at the upsert: it runs the executor; when
\* it succeeds it has stored its response in the record and returns
\* replayed = FALSE. A replay is returned only after a successful run.
C6_RetryAfterFailure ==
    \A d \in CallIds :
        (PriorFailure(d) /\ calls[d].entryId # 0) =>
            /\ ~PriorSuccess(d) =>
                  /\ calls[d].pc \in {"executor", "persist", "done"}
                  /\ Done(d) => calls[d].executions = 1
                  /\ Succeeded(d) =>
                        /\ ~Result(d).replayed
                        /\ \E r \in RecordOf(d) :
                              /\ r.responsePayload # Absent
                              /\ r.responsePayload[1].transaction.id =
                                    Result(d).transactionId
            /\ (Succeeded(d) /\ Result(d).replayed) => PriorSuccess(d)

\* A resolver run failed, the retry succeeded without being a replay, and
\* the invocation after that was a replay.
C6_Witness ==
    /\ ResolverFailed(1)
    /\ SameRequest(1, 2) /\ Succeeded(2) /\ ~Result(2).replayed
    /\ SameRequest(1, 3) /\ Succeeded(3) /\ Result(3).replayed

-----------------------------------------------------------------------------
(* C7: input that fails the input schema                                   *)

\* C7: an invocation whose input fails the input schema returns status
\* "error" with code VALIDATION_ERROR and the validation issues, and has
\* neither run the resolver nor touched any table.
C7_ValidationError ==
    \A c \in CallIds :
        (Done(c) /\ ~InputSchemaAccepts(calls[c].input)) =>
            /\ Result(c).status = "error"
            /\ Result(c).code = "VALIDATION_ERROR"
            /\ Result(c).details = "issues"
            /\ calls[c].executions = 0
            /\ calls[c].tenantId = 0
            /\ calls[c].customerId = 0
            /\ calls[c].entryId = 0
            /\ calls[c].insertedId = 0

-----------------------------------------------------------------------------
(* C8: the chat tool without an idempotencyKey                             *)

PersistDone(p) == persists[p].pc = "done"

WithoutKey(p) == persists[p].transaction.idempotencyKey = Absent

\* The invocation passes the guards of persistTransaction: a database, an
\* amount that is a finite number, a currency
Persistable(p) ==
    /\ persists[p].db
    /\ persists[p].transaction.amount # Absent
    /\ persists[p].transaction.amount[1].finite
    /\ persists[p].transaction.currency # Absent

DescriptionOrNotes(transaction) ==
    IF transaction.description # Absent THEN transaction.description
    ELSE transaction.notes

\* Same tenant, customer, occurredAt, amount and description-or-notes
SameDedupeFields(p, o) ==
    /\ persists[p].user.tenantId = persists[o].user.tenantId
    /\ persists[p].user.customerId = persists[o].user.customerId
    /\ persists[p].transaction.occurredAt = persists[o].transaction.occurredAt
    /\ persists[p].transaction.amount = persists[o].transaction.amount
    /\ DescriptionOrNotes(persists[p].transaction) =
          DescriptionOrNotes(persists[o].transaction)

ReturnsTheOneRow(p) ==
    LET result == persists[p].result[1]
        rows == PaymentIntentsWithReference(persists[p].user.tenantId,
                                            persists[p].externalReference)
    IN /\ result.status = "success"
       /\ result.reference = persists[p].externalReference
       /\ Cardinality(rows) = 1
       /\ \A r \in rows : r.id = result.id

\* C8 as stated, with a database configured: every call of persistTransaction
\* without an idempotencyKey returns status success with the id of the one row of its
\* (tenantId, externalReference), and calls with the same tenant, customer,
\* occurredAt, amount and description-or-notes have the same externalReference.
C8_AsStated ==
    /\ \A p \in PersistIds :
          (PersistDone(p) /\ WithoutKey(p) /\ persists[p].db) => ReturnsTheOneRow(p)
    /\ \A p, o \in PersistIds :
          (PersistDone(p) /\ PersistDone(o) /\ WithoutKey(p) /\ WithoutKey(o)
             /\ SameDedupeFields(p, o)) =>
          persists[p].externalReference = persists[o].externalReference

\* C8 (amended): with a database configured, every call of persistTransaction
\* without an idempotencyKey whose amount is a finite number and whose
\* currency is not null returns status success with the id of the one row
\* of its (tenantId, externalReference), in any interleaving; calls with the
\* same tenant, customer, occurredAt, amount and description-or-notes have
\* the same externalReference.
C8_DedupeBarrier ==
    /\ \A p \in PersistIds :
          (PersistDone(p) /\ WithoutKey(p) /\ Persistable(p)) => ReturnsTheOneRow(p)
    /\ \A p, o \in PersistIds :
          (PersistDone(p) /\ PersistDone(o) /\ WithoutKey(p) /\ WithoutKey(o)
             /\ Persistable(p) /\ Persistable(o) /\ SameDedupeFields(p, o)) =>
          persists[p].externalReference = persists[o].externalReference

\* All invocations have the same dedupe fields, one of them carrying the
\* text as description and another as notes; all have returned the one row.
C8_Witness ==
    /\ \A p \in PersistIds :
          /\ PersistDone(p) /\ WithoutKey(p) /\ Persistable(p)
          /\ SameDedupeFields(1, p)
          /\ persists[p].result[1].id = 1
    /\ \E p \in PersistIds : persists[p].transaction # persists[1].transaction
    /\ Cardinality(paymentIntents) = 1

-----------------------------------------------------------------------------
(* C9, C10: a classified intent with confidence < 0.4                      *)

Classified(q) == chats[q].pc \notin {"idle", "classify"} /\ chats[q].plan # <<>>

LowConfidence(q) == Classified(q) /\ chats[q].confidence < LowConfidenceThreshold

\* C9: in a chat request whose intent has confidence < 0.4 no tool handler
\* is invoked, metadata.toolResults stays empty and persistTransaction does
\* not run.
C9_NoToolWhenLowConfidence ==
    \A q \in ChatIds :
        LowConfidence(q) =>
            /\ chats[q].toolInvocations = 0
            /\ chats[q].toolResults = <<>>
            /\ persists[q].pc = "idle"

Responded(q) == chats[q].pc = "done" /\ chats[q].response[1].status = 200

\* C10: the response of a chat request whose intent has confidence < 0.4
\* carries exactly one followup, the clarifying sentence, for every intent
\* and every outcome of the plan.
C10_ClarifyingFollowup ==
    \A q \in ChatIds :
        (Responded(q) /\ LowConfidence(q)) =>
            chats[q].response[1].followup = <<ClarifyingFollowup>>

\* A record_transaction request of confidence 0.39 whose tool step returned
\* an error has been answered.
C10_Witness ==
    \E q \in ChatIds :
        /\ Responded(q)
        /\ chats[q].confidence = 39
        /\ chats[q].intent = "record_transaction"
        /\ Len(chats[q].toolResults) = 1
        /\ chats[q].toolResults[1].status = "error"

-----------------------------------------------------------------------------
(* The monthly memory: C11, C16, C17                                       *)

\* The stored insights of one (userId, month)
PairInsights(store, userId, month) ==
    SelectSeq(store, LAMBDA entry : entry.userId = userId /\ entry.month = month)

\* The embedding records stored under one id
EmbeddingsOf(id) == SelectSeq(embeddings, LAMBDA record : record.id = id)

StoredInsights == {insightStore[k] : k \in 1..Len(insightStore)}

\* C11: every document that insightVectorStore.search returns for a user U
\* has userId U, and its id, content, month and KPIs are those of an insight
\* that the store holds for U; no document comes from another user's insight.
C11_SearchScoped ==
    apiResponse.op = "search" =>
        \A i \in 1..Len(apiResponse.documents) :
            LET doc == apiResponse.documents[i]
            IN /\ doc.userId = apiResponse.userId
               /\ doc.metadata.userId = apiResponse.userId
               /\ \E insight \in StoredInsights :
                     /\ insight.userId = apiResponse.userId
                     /\ insight.id = doc.id
                     /\ doc.content = insight.story
                     /\ doc.metadata.month = insight.month
                     /\ doc.metadata.kpis = insight.kpis

\* A search of a user returned documents while another user has insights.
C11_Witness ==
    /\ apiResponse.op = "search"
    /\ Len(apiResponse.documents) >= 1
    /\ \E insight \in StoredInsights : insight.userId # apiResponse.userId

\* One step of computeMonthlyMemory: afterwards every (userId, month) has at
\* most one insight, the pair of the call has the insight the call built, and
\* the insights of every other pair are the ones held before.
C16_Step ==
    computations' # computations =>
        LET written == apiResponse'.insight
        IN /\ PairInsights(insightStore', written.userId, written.month)
                = <<written>>
           /\ \A userId \in MemoryUsers, month \in PayloadMonths :
                 /\ Len(PairInsights(insightStore', userId, month)) <= 1
                 /\ (userId # written.userId \/ month # written.month) =>
                        PairInsights(insightStore', userId, month)
                            = PairInsights(insightStore, userId, month)

\* C16: after any sequence of computeMonthlyMemory calls the insight store
\* holds at most one insight per (userId, month), which is the one the most
\* recent call for the pair wrote, and a call leaves every other pair as it
\* was (stated on every step).
C16_UpsertReplaces == [][C16_Step]_vars

\* A pair was computed again while the store holds another pair.
C16_Witness ==
    /\ Len(insightStore) >= 2
    /\ Len(insightStore) < computations
    /\ \E insight \in StoredInsights : insight.createdAt = computations

\* The two stores agree: every insight has exactly one embedding record under
\* its id, with its userId and month, and every record has its insight.
StoresAgree ==
    /\ \A insight \in StoredInsights :
          /\ Len(EmbeddingsOf(insight.id)) = 1
          /\ EmbeddingsOf(insight.id)[1].metadata.userId = insight.userId
          /\ EmbeddingsOf(insight.id)[1].metadata.month = insight.month
    /\ \A j \in 1..Len(embeddings) :
          \E insight \in StoredInsights : insight.id = embeddings[j].id

\* C17: after any sequence of computeMonthlyMemory calls for any users and
\* months the insight store and the embedding store agree: one embedding
\* record per insight, under the insight's id and with its userId and month,
\* and no record without its insight.
C17_NoDivergence == computations > 0 => StoresAgree

-----------------------------------------------------------------------------
(* GET /benchmarks: C12                                                    *)

\* The customer is a customer of the tenant and one of its opt-in flags is set
OptedIn(customerId, tenantId) ==
    \E row \in customers :
        /\ row.id = customerId
        /\ row.tenantId = tenantId
        /\ (row.metadata.allow_benchmarking
              \/ row.metadata.preferences.allowBenchmarking)

RECURSIVE SampleSizes(_)
SampleSizes(cohorts) ==
    IF cohorts = <<>> THEN 0
    ELSE Head(cohorts).metrics.sample_size + SampleSizes(Tail(cohorts))

-----------------------------------------------------------------------------
(* requireUser: C14, C15                                                   *)

AuthDone == auth.pc = "done"

\* The token of the request is signed for HS256 and names a sub and a tenant
CorrectlySigned ==
    /\ auth.token # Absent
    /\ auth.token[1].alg = "HS256"
    /\ auth.token[1].signed
    /\ auth.token[1].payload.sub # ""
    /\ auth.token[1].payload.tenantId # ""

\* exp is in the future at the time of the request
ExpInFuture ==
    /\ auth.token[1].payload.exp # Absent
    /\ auth.token[1].payload.exp[1] * 1000 > auth.now

\* C14: a request whose correctly signed token has an exp that is in the
\* past, equal to now or absent ends with HTTP 401 and without a user on its
\* context.
C14_ExpInFuture ==
    (AuthDone /\ CorrectlySigned /\ ~ExpInFuture) =>
        (auth.status = 401 /\ auth.user = Absent)

\* The customers rows that the token of the request names
TokenCustomers ==
    {row \in customers :
        /\ row.id = auth.token[1].payload.sub
        /\ row.tenantId = auth.token[1].payload.tenantId}

\* C15: with a database, a request leaves requireUser with a user only if a
\* customers row exists for the sub of its token within the tenant of the
\* token, and the user then is that row's (tenantId, customerId); otherwise
\* it ends with HTTP 401 and without a user on its context.
C15_TenantScope ==
    (AuthDone /\ auth.db) =>
        IF auth.user # Absent
        THEN /\ auth.status = 200
             /\ \E row \in TokenCustomers :
                   /\ auth.user[1].customerId = row.id
                   /\ auth.user[1].tenantId = row.tenantId
        ELSE auth.status = 401

\* fetchUserRecord rejected a request whose token names a customer of another
\* tenant.
C15_Witness ==
    /\ AuthDone /\ auth.db
    /\ auth.message = "Unauthorised user context"
    /\ \E row \in customers : row.id = auth.token[1].payload.sub

-----------------------------------------------------------------------------
(* enforceRateLimit: C13                                                   *)

LimitOf(key) ==
    (CHOOSE options \in RateLimitedRoutes :
        \E address \in ClientAddresses : BucketKey(options, "c1", address) = key).limit

\* The latest request found its bucket's window open and full
WindowFull ==
    /\ apiResponse.before # Absent
    /\ apiResponse.before[1].resetAt > apiResponse.now
    /\ apiResponse.admittedBefore >= apiResponse.options.limit

\* C13: no bucket has more than `limit` requests admitted between the
\* creation of its window and its resetAt; a request that finds the window
\* open and full is rejected with 429 RATE_LIMIT and a retry-after of
\* ceil((resetAt - now) / 1000) seconds, between 0 and windowMs / 1000, and
\* every other request is admitted.
C13_RateLimit ==
    /\ \A key \in BucketKeys : admissions[key].admitted <= LimitOf(key)
    /\ apiResponse.op = "enforceRateLimit" =>
          IF WindowFull
          THEN /\ ~apiResponse.admitted
               /\ apiResponse.status = 429
               /\ apiResponse.code = "RATE_LIMIT"
               /\ apiResponse.retryAfter =
                     CeilDiv(apiResponse.before[1].resetAt - apiResponse.now, 1000)
               /\ apiResponse.retryAfter >= 0
               /\ apiResponse.retryAfter * 1000 <= apiResponse.options.windowMs
          ELSE apiResponse.admitted

\* A request was rejected at a full window, 999 ms before the window's end.
C13_Witness ==
    /\ apiResponse.op = "enforceRateLimit"
    /\ WindowFull
    /\ apiResponse.before[1].resetAt - apiResponse.now = 999
    /\ apiResponse.retryAfter = 1

-----------------------------------------------------------------------------
(* POST /upload-csv: C18                                                   *)

RECURSIVE RowCounts(_)
RowCounts(batches) ==
    IF batches = <<>> THEN 0
    ELSE Head(batches).rowCount + RowCounts(Tail(batches))

\* The response of an upload of n rows reports ceil(n / 500) batches in row
\* order, numbered from 1, of at most 500 rows each, that add up to n.
BatchesCover(response, n) ==
    /\ response.status = 200
    /\ response.ingestedCount = n
    /\ Len(response.batches) = CeilDiv(n, CsvBatchSize)
    /\ RowCounts(response.batches) = n
    /\ \A i \in 1..Len(response.batches) :
          /\ response.batches[i].batch = i
          /\ response.batches[i].rowCount <= CsvBatchSize
          /\ response.batches[i].firstRow = (i - 1) * CsvBatchSize + 1

\* The step is a request to POST /upload-csv
UploadStep == apiResponse'.op = "uploadCsv"

\* An upload of more than 2000 rows is rejected and upserts nothing.
RejectsTooLarge ==
    apiResponse'.csv.rows > CsvRowCap =>
        /\ apiResponse'.status = 400
        /\ insightStore' = insightStore
        /\ embeddings' = embeddings

\* C18 as stated: an upload of more than 2000 data rows is rejected and
\* upserts nothing; an upload of n data rows, 1 <= n <= 2000, processes
\* ceil(n / 500) batches in row order, of at most 500 rows each, numbered
\* from 1, whose rowCounts add up to ingestedCount = n.
C18_AsStated ==
    [][UploadStep =>
        /\ RejectsTooLarge
        /\ (apiResponse'.csv.rows >= 1 /\ apiResponse'.csv.rows <= CsvRowCap) =>
               BatchesCover(apiResponse', apiResponse'.csv.rows)]_vars

\* C18 (amended): as C18, for uploads of 1 <= n <= 2000 data rows whose
\* amounts are all finite numbers.
C18_Batches ==
    [][UploadStep =>
        /\ RejectsTooLarge
        /\ (/\ apiResponse'.csv.rows >= 1
            /\ apiResponse'.csv.rows <= CsvRowCap
            /\ apiResponse'.csv.invalid = 0) =>
               BatchesCover(apiResponse', apiResponse'.csv.rows)]_vars

\* An upload of 2000 rows was answered with 4 batches.
C18_Witness ==
    /\ apiResponse.op = "uploadCsv"
    /\ apiResponse.csv.rows = CsvRowCap
    /\ apiResponse.status = 200
    /\ Len(apiResponse.batches) = 4

-----------------------------------------------------------------------------
(* Provider retries and cancellation: C19, C20                             *)

\* The call is over, it made requests, and every one of them failed
AllAttemptsFailed ==
    /\ providerCall.pc = "done"
    /\ providerCall.fetches # <<>>
    /\ ~providerCall.aborted
    /\ ~providerCall.result[1].ok

\* C19: a provider call whose every attempt fails has made exactly R = 3
\* requests when it ends, and ends with the error of the last of them.
C19_ExactlyRAttempts ==
    AllAttemptsFailed =>
        /\ Len(providerCall.fetches) = RetryConfig(providerCall.kind).retries
        /\ providerCall.result[1].error =
               providerCall.fetches[Len(providerCall.fetches)]

\* The step is taken by a call whose signal has fired, the firing included
CancelledStep ==
    /\ providerCall.pc \in {"inFlight", "sleeping"}
    /\ providerCall'.aborted

\* C20: once the signal of a call has fired while a request was in flight or
\* the call was sleeping, the request in flight is aborted, the call starts
\* no further request and no further sleep, and when it ends it ends with
\* the cancellation and not with an error of the provider.
C20_Cancellation ==
    [][CancelledStep =>
          /\ "inFlight" \notin {providerCall'.fetches[i] :
                                   i \in 1..Len(providerCall'.fetches)}
          /\ Len(providerCall'.fetches) = Len(providerCall.fetches)
          /\ Len(providerCall'.sleeps) = Len(providerCall.sleeps)
          /\ providerCall'.pc = "done" =>
                 providerCall'.result[1] = Rejected("AbortError")]_vars

-----------------------------------------------------------------------------
(* The KPI library: C21 .. C25                                             *)

Simulated == evaluation.op = "simulate"

Baseline == evaluation.insight.kpis

Projected == evaluation.simulation.projectedInsight.kpis

\* C21: a simulation without actions returns the KPI set of the insight:
\* the same keys and, for each key, the same value.
C21_NoActionsNoChange ==
    (Simulated /\ evaluation.actions = <<>>) => Projected = Baseline

\* The simulation of [improve-savings] on an insight with income
ImprovedSavings ==
    /\ Simulated
    /\ evaluation.actions = <<"improve-savings">>
    /\ Baseline.income > 0

\* What C22 says of the simulation of [improve-savings]
SavingsImproved ==
    LET rateChange == Projected.savingsRate - Baseline.savingsRate
        moved == Mult(Baseline.income, rateChange)
    IN /\ Projected.savingsRate = ClampTo(Baseline.savingsRate + 30, 0, 800)
       /\ Projected.expenses = Baseline.expenses - moved
       /\ Projected.cashFlow = Baseline.cashFlow + moved
       /\ evaluation.simulation.projectedHealth.total
             > evaluation.baselineHealth.total

\* C22 as stated: for an insight with income > 0, [improve-savings] gives the
\* savings rate clamp(savingsRate + 0.03, 0, 0.8), expenses lower and cash
\* flow higher by income times the change of the rate, and a higher health
\* total.
C22_AsStated == ImprovedSavings => SavingsImproved

\* C22 (amended): the same, for insights whose expenses do not exceed the
\* income and whose savings rate is at most 0.77.
C22_ImproveSavings ==
    (/\ ImprovedSavings
     /\ Baseline.expenses <= Baseline.income
     /\ Baseline.savingsRate <= 770) => SavingsImproved

\* The example of the claim at a thousandth of its amounts: savings rate
\* 0.10, income 10,000, expenses 9,000 and cash flow 1,000 give 0.13, 8,700
\* and 1,300.
C22_Witness ==
    /\ ImprovedSavings
    /\ Baseline.income = 10000 /\ Baseline.expenses = 9000
    /\ Baseline.cashFlow = 1000 /\ Baseline.savingsRate = 100
    /\ Projected.savingsRate = 130
    /\ Projected.expenses = 8700
    /\ Projected.cashFlow = 1300

CashFlowBalanced(kpis) ==
    kpis.cashFlow = kpis.income - kpis.expenses - kpis.investments
                    - kpis.debtPayments

\* C23: the KPI values of a computed insight, and of the projection of any
\* list of actions on it, satisfy
\* cashFlow = income - expenses - investments - debtPayments.
C23_CashFlowBalanced ==
    Simulated => CashFlowBalanced(Baseline) /\ CashFlowBalanced(Projected)

\* Two actions that move amounts were simulated on an insight with income
\* and investments.
C23_Witness ==
    /\ Simulated
    /\ evaluation.actions = <<"boost-investments", "optimize-expenses">>
    /\ Baseline.income > 0 /\ Baseline.investments > 0
    /\ Projected.investments > Baseline.investments
    /\ Projected.expenses < Baseline.expenses

Suggested == evaluation.op = "suggest"

\* The trigger of each action, from the KPI values, the goals and the health
Trigger(id) ==
    LET kpis == evaluation.insight.kpis
        goals == evaluation.insight.goals
    IN CASE id = "improve-savings" ->
               kpis.savingsRate < OrElse(goals.savingsRate, 200)
         [] id = "optimize-expenses" ->
               kpis.expenseRatio > OrElse(goals.expenseRatio, 500)
         [] id = "accelerate-debt" ->
               kpis.debtToIncome > OrElse(goals.debtToIncome, 350)
         [] id = "boost-investments" ->
               kpis.investmentRate < OrElse(goals.investmentRate, 150)
         [] id = "grow-income" ->
               /\ kpis.income > 0
               /\ \E i \in 1..Len(evaluation.health.components) :
                     /\ evaluation.health.components[i].key = "cashFlow"
                     /\ evaluation.health.components[i].score < 500

FixedOrder ==
    <<"improve-savings", "optimize-expenses", "accelerate-debt",
      "boost-investments", "grow-income">>

\* C24: suggestActions returns a list that is not empty, holds each id at
\* most once and in the fixed order, holds each of the five actions exactly
\* when its trigger holds, and is [stay-the-course] exactly when no trigger
\* holds.
C24_SuggestedActions ==
    Suggested =>
        LET actions == evaluation.actions
        IN /\ Len(actions) >= 1
           /\ \A i, j \in 1..Len(actions) : actions[i] = actions[j] => i = j
           /\ \A i \in 1..Len(FixedOrder) :
                 Trigger(FixedOrder[i]) <=> HasAction(actions, FixedOrder[i])
           /\ \A i, j \in 1..Len(FixedOrder) :
                 (i < j /\ Trigger(FixedOrder[i]) /\ Trigger(FixedOrder[j])) =>
                     \E k, l \in 1..Len(actions) :
                         /\ k < l
                         /\ actions[k] = FixedOrder[i]
                         /\ actions[l] = FixedOrder[j]
           /\ HasAction(actions, "stay-the-course") <=>
                 \A i \in 1..Len(FixedOrder) : ~Trigger(FixedOrder[i])
           /\ HasAction(actions, "stay-the-course") => Len(actions) = 1

\* Three rules fired, the last of them on the cash-flow component.
C24_Witness ==
    /\ Suggested
    /\ evaluation.actions = <<"improve-savings", "optimize-expenses", "grow-income">>

Scored == evaluation.op = "score"

-----------------------------------------------------------------------------
(* The plan executor: C26 .. C30                                           *)

StepIds(plan) == [i \in DOMAIN plan |-> plan[i].id]

StepTypes(plan) == [i \in DOMAIN plan |-> plan[i].type]

\* How often an id was written to stepResults
Writes(chat, id) == Cardinality({i \in DOMAIN chat.written : chat.written[i] = id})

BuiltPlans == {BuildPlan(intent) : intent \in IntentNames}

DependencyUnmet(chat) ==
    /\ chat.pc = "step"
    /\ ~(chat.plan[chat.step].dependsOn \subseteq chat.stepResults)

C26_Step(q) ==
    LET before == chats[q]
        after == chats'[q]
        n == Len(after.ran)
    IN /\ n <= Len(after.plan)
       /\ after.ran = SubSeq(StepIds(after.plan), 1, n)
       /\ after.ran # before.ran =>
             /\ n = Len(before.ran) + 1
             /\ before.plan[n].dependsOn \subseteq before.stepResults
             /\ before.stepResults = {before.written[i] : i \in DOMAIN before.written}
             /\ before.plan \in BuiltPlans =>
                   \A id \in before.plan[n].dependsOn : Writes(before, id) = 1
       /\ DependencyUnmet(before) =>
             /\ after.pc = "done"
             /\ after.error = "Plan dependency unmet"
             /\ after.ran = before.ran
       /\ before.pc = "done" => after = before
       /\ after.plan \in BuiltPlans =>
             \A i \in DOMAIN after.plan : Writes(after, after.plan[i].id) <= 1

\* C26: executePlan runs the steps in plan order, and a step only when all
\* ids of its dependsOn are keys of stepResults; with an unmet dependency the
\* execution fails ("Plan dependency unmet") and neither that step nor a later
\* one runs. In the plans of buildPlan every id a step depends on was written
\* to stepResults exactly once when the dependent step runs.
C26_PlanOrder == [][\A q \in ChatIds : C26_Step(q)]_vars

\* An execution has failed on the dependency of its second step.
C26_Witness ==
    /\ chats[1].pc = "done"
    /\ chats[1].error = "Plan dependency unmet"
    /\ chats[1].ran = <<"extract-transaction">>
    /\ chats[1].step = 2

\* C27: buildPlan maps record_transaction to extract-transaction (llm),
\* persist-transaction (tool transactions.create, depending on
\* extract-transaction), respond-user (synthesis); budget_summary to
\* retrieve-context (retrieval), summarize-month (llm), respond-user;
\* general_question to retrieve-context, respond-user; unknown to
\* respond-user. Only the plan of record_transaction has a tool step, and
\* every plan ends with its only synthesis step.
C27_FixedPlans ==
    \A q \in ChatIds :
        Classified(q) =>
            LET plan == chats[q].plan
                intent == chats[q].intent
            IN /\ intent = "record_transaction" =>
                     /\ StepIds(plan) = <<"extract-transaction", "persist-transaction",
                                          "respond-user">>
                     /\ StepTypes(plan) = <<"llm", "tool", "synthesis">>
                     /\ plan[2].tool = "transactions.create"
                     /\ "extract-transaction" \in plan[2].dependsOn
               /\ intent = "budget_summary" =>
                     /\ StepIds(plan) = <<"retrieve-context", "summarize-month",
                                          "respond-user">>
                     /\ StepTypes(plan) = <<"retrieval", "llm", "synthesis">>
               /\ intent = "general_question" =>
                     StepIds(plan) = <<"retrieve-context", "respond-user">>
               /\ intent = "unknown" => StepIds(plan) = <<"respond-user">>
               /\ (\E i \in DOMAIN plan : plan[i].type = "tool")
                     <=> intent = "record_transaction"
               /\ plan[Len(plan)].type = "synthesis"
               /\ Cardinality({i \in DOMAIN plan : plan[i].type = "synthesis"}) = 1

\* A summary request has its plan and is at the LLM step.
C27_Witness ==
    \E q \in ChatIds :
        /\ Classified(q)
        /\ chats[q].intent = "budget_summary"
        /\ chats[q].pc = "step"
        /\ chats[q].step = 2

ToolStepsRun(chat) == {i \in DOMAIN chat.ran : chat.plan[i].type = "tool"}

\* C28: a tool step that ran never aborts the plan: when the request has
\* ended, the step has one entry in toolResults and its id in stepResults,
\* and the steps after it, the synthesis included, have run.
C28_ToolStepNeverAborts ==
    \A q \in ChatIds :
        (chats[q].pc = "done" /\ ToolStepsRun(chats[q]) # {}) =>
            /\ Len(chats[q].toolResults) = Cardinality(ToolStepsRun(chats[q]))
            /\ \A i \in ToolStepsRun(chats[q]) : chats[q].ran[i] \in chats[q].stepResults
            /\ Len(chats[q].ran) = Len(chats[q].plan)
            /\ chats[q].finalMessage # ""

Confirmation == SynthesisMessage("record_transaction")

ToolStatuses(chat) == {chat.toolResults[i].status : i \in DOMAIN chat.toolResults}

\* C29: the reply of a record_transaction request whose persist-transaction
\* result has status "error" is not the confirmation "Got it! I've recorded
\* ..."; the confirmation is replied only when the transaction was persisted.
C29_ApologyOnFailedPersist ==
    \A q \in ChatIds :
        (Responded(q) /\ chats[q].intent = "record_transaction") =>
            /\ "error" \in ToolStatuses(chats[q]) =>
                  chats[q].response[1].reply # Confirmation
            /\ chats[q].response[1].reply = Confirmation =>
                  "success" \in ToolStatuses(chats[q])

\* C30: a request that ended on the schema validation of the output of its
\* LLM step has called the model a second time for that step (and only a
\* second invalid output ends it).
C30_RetryOnInvalidOutput ==
    \A q \in ChatIds :
        (chats[q].pc = "done" /\ chats[q].error = "ZodError"
           /\ chats[q].plan[chats[q].step].type = "llm") =>
            chats[q].modelCalls = 2

-----------------------------------------------------------------------------
(* C31: the documents of a retrieval step                                  *)

Retrieved(q) == chats[q].stepDocuments # Absent /\ chats[q].vectorStore # Absent

\* C31: after a retrieval step state.retrievedDocuments and the step result
\* are the documents the vector store returned whose userId is the userId
\* of the request, in the returned order, and at no time does
\* state.retrievedDocuments (the documents of the result and the context of
\* the summary and the synthesis) hold a document of another user.
C31_OwnDocumentsOnly ==
    \A q \in ChatIds :
        LET userId == chats[q].user.userId
            returned == chats[q].vectorStore[1]
            kept == chats[q].retrievedDocuments
        IN /\ \A i \in DOMAIN kept : kept[i].userId = userId
           /\ Retrieved(q) =>
                 /\ kept = SelectSeq(returned, LAMBDA doc : doc.userId = userId)
                 /\ chats[q].stepDocuments[1] = kept

\* A store returned documents of two users and the step kept some of them.
C31_Witness ==
    /\ Retrieved(1)
    /\ chats[1].retrievedDocuments # <<>>
    /\ Len(chats[1].retrievedDocuments) < Len(chats[1].vectorStore[1])

-----------------------------------------------------------------------------
(* C32: embedTexts                                                         *)

EmbedReturned == embedCall.pc = "returned"

\* The places (request, position) at which a text was sent to the provider
SentAt(text) ==
    {place \in {<<call, idx>> : call \in DOMAIN embedCall.batches,
                                idx \in 1..(2 * DEFAULT_BATCH)} :
        /\ place[2] <= Len(embedCall.batches[place[1]])
        /\ embedCall.batches[place[1]][place[2]] = text}

\* C32: embedTexts returns one embedding per text, in input order, each the
\* provider's embedding of the text trimmed and cut to 400 characters; texts
\* that are equal after that are sent to the provider once and get the same
\* embedding; every request carries at most batchSize (default 32) texts, and
\* ceil(u / batchSize) requests are made for u distinct texts.
C32_EmbedTexts ==
    LET texts == embedCall.texts
        batchSize == OrElse(embedCall.batchSize, DEFAULT_BATCH)
        sent == {SanitizeText(texts[i]) : i \in DOMAIN texts}
        u == Cardinality(sent)
    IN /\ embedCall.pc \in {"batch", "returned", "rejected"} =>
             \A call \in DOMAIN embedCall.batches :
                 /\ Len(embedCall.batches[call]) \in 1..batchSize
                 /\ \A idx \in DOMAIN embedCall.batches[call] :
                       SentAt(embedCall.batches[call][idx]) = {<<call, idx>>}
       /\ EmbedReturned =>
             /\ Len(embedCall.embeddings) = Len(texts)
             /\ \A i \in DOMAIN texts :
                   /\ embedCall.embeddings[i].text = SanitizeText(texts[i])
                   /\ \E place \in SentAt(SanitizeText(texts[i])) :
                         embedCall.embeddings[i].call = place[1]
             /\ \A i, j \in DOMAIN texts :
                   SanitizeText(texts[i]) = SanitizeText(texts[j]) =>
                       embedCall.embeddings[i] = embedCall.embeddings[j]
             /\ \A text \in sent : Cardinality(SentAt(text)) = 1
             /\ Len(embedCall.batches) * batchSize >= u
             /\ (Len(embedCall.batches) - 1) * batchSize < u \/ u = 0

\* Three texts, two of them equal after the cut at 400 characters, were
\* embedded with two requests of one text.
C32_Witness ==
    /\ EmbedReturned
    /\ Len(embedCall.texts) = 3
    /\ Len(embedCall.unique) = 2
    /\ Len(embedCall.batches) = 2
    /\ \E i \in DOMAIN embedCall.texts :
          /\ TextLength(embedCall.texts[i]) > MAX_CHARS
          /\ TextLength(embedCall.embeddings[i].text) = MAX_CHARS


\* C33: simulateAdjustments works on a copy. After each simulation the
\* insight it was given has the KPI keys and values and the story it had
\* before, the store holds the entry it held with the keys, values and
\* story it had, and every simulation of the stored insight returns what
\* the first returned.
C33_SimulationKeepsInput ==
    heap.pc = "stored" =>
        /\ heap.insightStore = <<heap.stored.address>>
        /\ InsightAt(heap.objects, heap.insightStore[1])
               = InsightAt(heap.stored.objects, heap.stored.address)
        /\ \A i \in DOMAIN heap.simulations :
              /\ heap.simulations[i].after = heap.simulations[i].input
              /\ heap.simulations[i].simulation = heap.simulations[1].simulation

\* An insight without debtOutstanding was simulated twice with actions that
\* changed its KPIs
C33_Witness ==
    /\ heap.pc = "stored"
    /\ Len(heap.simulations) = 2
    /\ "debtOutstanding" \notin DOMAIN heap.simulations[1].input.kpis
    /\ "debtOutstanding" \in DOMAIN heap.simulations[2].simulation.projectedInsight.kpis
    /\ \E key \in DOMAIN heap.simulations[2].input.kpis :
          heap.simulations[2].simulation.projectedInsight.kpis[key]
              # heap.simulations[2].input.kpis[key]


-----------------------------------------------------------------------------
(* The insight and the stores after an upload: C34, C35                    *)

\* C34 as stated: after a successful upload of n rows for (user, month) the
\* insight stored for (user, month) has the sums over all n rows as its
\* income, expenses, investments and debtPayments, also when n > 500.
\* (Every row of a modelled CSV is an income of 1.)
C34_InsightOfAllRows ==
    (apiResponse.op = "uploadCsv" /\ apiResponse.status = 200) =>
        LET stored == PairInsights(insightStore, apiResponse.userId,
                                   apiResponse.month)
        IN /\ Len(stored) = 1
           /\ stored[1].kpis.income = apiResponse.csv.rows
           /\ stored[1].kpis.expenses = 0
           /\ stored[1].kpis.investments = 0
           /\ stored[1].kpis.debtPayments = 0

\* C35 as stated: an upload that fails with INVALID_AMOUNT leaves the
\* insight store and the embedding store as they were before the request.
C35_NoPartialIngest ==
    [][(UploadStep /\ apiResponse'.message = "INVALID_AMOUNT") =>
          /\ insightStore' = insightStore
          /\ embeddings' = embeddings]_vars


-----------------------------------------------------------------------------
(* Preferences and the benchmarking opt-in: C36                            *)

\* The row of a customer in a state of table customers
CustomerRow(rows, customerId) == CHOOSE row \in rows : row.id = customerId

\* The keys of the preferences that POST /preferences may change
PreferenceKeys == {"categories", "notifications", "goals"}

\* C36 as stated: POST /preferences changes only the preferences
\* categories, notifications and goals: every other key of the customer's
\* metadata and of its preferences, allowBenchmarking among them, is there
\* with the same value after the call as before, and a customer who was
\* allowed to benchmark before the call is allowed after it.
C36_PreferencesKeepOptIn ==
    [][(apiResponse'.op = "preferences" /\ apiResponse'.status = 200) =>
          LET before == CustomerRow(customers, apiResponse'.caller).metadata
              after == CustomerRow(customers', apiResponse'.caller).metadata
          IN /\ DOMAIN after = DOMAIN before
             /\ \A key \in DOMAIN before \ {"preferences"} :
                   after[key] = before[key]
             /\ \A key \in DOMAIN before.preferences \ PreferenceKeys :
                   /\ key \in DOMAIN after.preferences
                   /\ after.preferences[key] = before.preferences[key]
             /\ AllowsBenchmarking(before) => AllowsBenchmarking(after)]_vars


-----------------------------------------------------------------------------
(* One idempotency key, two customers, two tenants: C37                    *)

CallDone(c) == calls[c].pc = "done"

CallResult(c) == calls[c].result[1]

\* Invocation b follows the completed invocation a of another customer of
\* the same tenant under the same key
FollowsOtherCustomer(a, b) ==
    /\ a < b
    /\ CallDone(a) /\ CallResult(a).status = "success"
    /\ CallDone(b)
    /\ calls[b].slug = calls[a].slug
    /\ calls[b].userId # calls[a].userId
    /\ calls[b].input.idempotencyKey = calls[a].input.idempotencyKey

\* b was refused with IDEMPOTENCY_CONFLICT: it got no transaction and
\* inserted none
Conflicted(b) ==
    /\ CallResult(b).code = "IDEMPOTENCY_CONFLICT"
    /\ CallResult(b).transactionId = 0
    /\ ~CallResult(b).replayed
    /\ calls[b].executions = 0
    /\ calls[b].insertedId = 0

\* No invocation before c used c's key in c's tenant with a valid input
FirstUseOfKey(c) ==
    \A d \in CallIds :
        (d < c /\ calls[d].slug = calls[c].slug /\ InputSchemaAccepts(calls[d].input))
            => calls[d].input.idempotencyKey # calls[c].input.idempotencyKey

\* The first use of a key in a tenant is neither refused nor replayed,
\* whatever the other tenants recorded under the key
KeysArePerTenant ==
    \A c \in CallIds :
        (CallDone(c) /\ FirstUseOfKey(c)) =>
            /\ CallResult(c).code # "IDEMPOTENCY_CONFLICT"
            /\ ~CallResult(c).replayed

\* C37 as stated: once customer A has completed transactions.create under
\* key K, every invocation by another customer B of the same tenant with K,
\* whatever its payload, returns IDEMPOTENCY_CONFLICT, receives no
\* transaction and writes none; K in another tenant is independent.
C37_AsStated ==
    /\ \A a, b \in CallIds : FollowsOtherCustomer(a, b) => Conflicted(b)
    /\ KeysArePerTenant

\* C37 (amended): as C37, for the invocations of B whose input the input
\* schema accepts.
C37_OtherCustomerConflicts ==
    /\ \A a, b \in CallIds :
          (FollowsOtherCustomer(a, b) /\ InputSchemaAccepts(calls[b].input))
              => Conflicted(b)
    /\ KeysArePerTenant

\* A completed under k1, B of the same tenant was refused with A's very
\* input, and a customer of the other tenant completed under k1 after A
C37_Witness ==
    /\ CallDone(1) /\ CallResult(1).status = "success"
    /\ FollowsOtherCustomer(1, 2)
    /\ calls[2].input = calls[1].input
    /\ Conflicted(2)
    /\ CallDone(3)
    /\ calls[3].slug # calls[1].slug
    /\ calls[3].input = calls[1].input
    /\ CallResult(3).status = "success" /\ ~CallResult(3).replayed


-----------------------------------------------------------------------------
(* Concurrent first use of a tenant and a customer: C39                    *)

\* C39: however the steps of concurrent invocations interleave, there is at
\* most one tenant row per slug and one customer row per (tenantId,
\* externalReference); an invocation that has resolved its tenant or its
\* customer holds the id of that one row; and no invocation ends with
\* TENANT_CREATION_FAILED or CUSTOMER_CREATION_FAILED.
C39_OneRowPerScope ==
    /\ \A slug \in ScopeSlugs : Cardinality(TenantsWithSlug(slug)) <= 1
    /\ \A tenant \in tenants, userId \in UserIds :
          Cardinality(CustomersOf(tenant.id, userId)) <= 1
    /\ \A c \in CallIds :
          /\ calls[c].tenantId # 0 =>
                {tenant.id : tenant \in TenantsWithSlug(calls[c].slug)}
                    = {calls[c].tenantId}
          /\ calls[c].customerId # 0 =>
                {row.id : row \in CustomersOf(calls[c].tenantId, calls[c].userId)}
                    = {calls[c].customerId}
          /\ CallDone(c) =>
                CallResult(c).code \notin {"TENANT_CREATION_FAILED",
                                           "CUSTOMER_CREATION_FAILED"}

\* Two invocations of one user raced: both found no customer row, the
\* first inserted it and holds it, the second's insert did nothing and it is
\* about to select again
C39_Witness ==
    /\ calls[2].pc = "ensureCustomer.fallback"
    /\ calls[1].userId = calls[2].userId
    /\ calls[1].tenantId = calls[2].tenantId
    /\ calls[1].customerId # 0
    /\ Cardinality(customers) = 1


-----------------------------------------------------------------------------
(* Rejections and new windows of the limiter: C38                          *)

\* C38: a rejected request leaves the counter of its bucket as it was; no
\* request touches another bucket; a request that arrives at or after the
\* resetAt of its bucket is admitted and starts a window with count 1; and
\* a request within a window leaves resetAt where it was, so that a window
\* never ends later than windowMs after it started and a client that
\* retries is admitted again by then.
C38_Step ==
    LET response == apiResponse'
        key == response.key
        before == response.before
    IN /\ \A other \in BucketKeys \ {key} : buckets'[other] = buckets[other]
       /\ ~response.admitted =>
             /\ buckets'[key] = buckets[key]
             /\ response.now < before[1].resetAt
       /\ (before # Absent /\ before[1].resetAt <= response.now) =>
             /\ response.admitted
             /\ buckets'[key] =
                    Present([count |-> 1,
                             resetAt |-> response.now + response.options.windowMs])
       /\ (before # Absent /\ before[1].resetAt > response.now) =>
             /\ buckets'[key][1].resetAt = before[1].resetAt
             /\ before[1].resetAt <= response.now + response.options.windowMs

C38_RejectionKeepsWindow ==
    [][apiResponse'.op = "enforceRateLimit" => C38_Step]_vars

\* A request that arrived exactly at the resetAt of a full bucket was
\* admitted and started a window with count 1
C38_Witness ==
    /\ apiResponse.op = "enforceRateLimit"
    /\ apiResponse.admitted
    /\ apiResponse.before # Absent
    /\ apiResponse.before[1].count >= apiResponse.options.limit
    /\ apiResponse.before[1].resetAt = apiResponse.now
    /\ buckets[apiResponse.key][1].count = 1


-----------------------------------------------------------------------------
(* The insight of a chat response: C40                                     *)

\* The months in calendar order
MonthOrder == <<"2024-01", "2024-02">>

MonthRank(month) == CHOOSE i \in 1..Len(MonthOrder) : MonthOrder[i] = month

\* The response that Respond makes for q is made from the insight of the
\* greatest month among those the store holds for the user of q
FromGreatestMonth(q) ==
    LET own == ListInsights(insightStore, chats[q].user.userId)
        response == chats'[q].response[1]
    IN own # <<>> =>
          \E i \in 1..Len(own) :
              /\ \A j \in 1..Len(own) :
                    MonthRank(own[j].month) <= MonthRank(own[i].month)
              /\ response.kpis = Present(own[i].kpis)
              /\ response.actions = Present(ActionPayload(own[i]))

\* C40 as stated: the kpis and the actions of a chat response are those of
\* the stored insight of the requesting user with the greatest month,
\* whatever the order in which the user's months were computed.
C40_LatestMonth ==
    [][\A q \in ChatIds :
          (chats[q].pc = "respond" /\ chats'[q].pc = "done") =>
              FromGreatestMonth(q)]_vars

====
